---- MODULE Spec2Model ----
(***************************************************************************)
(* The greedy scheduler and student assigner of core/greedy.py as a state  *)
(* machine.  One run of main(): the tables are loaded and preprocessed,    *)
(* greedy_schedule_sections walks its four phases over sorted_sections,    *)
(* greedy_assign_students walks its two phases over sorted_students.       *)
(*                                                                         *)
(* The second half of the module is the ScheduleOptimizer of               *)
(* core/milp_soft.py: its variables and constraints, the warm start it     *)
(* takes from the greedy functions, the solver's outcome and what solve()  *)
(* does with it, and the two ways the tables are loaded (greedy.load_data  *)
(* and ScheduleDataLoader.load_all of core/load.py).  The last part has    *)
(* compute_student_section_score called on its own and the batch entry     *)
(* point run_chico_high_milp of backend/batch_jobs/run_optimization.py.    *)
(*                                                                         *)
(* Scores are Python floats in the source.  They are kept here as exact    *)
(* fractions <<numerator, denominator>>; every factor the source applies   *)
(* is a rational number, so the order of two scores is the order of the    *)
(* fractions.                                                              *)
(***************************************************************************)
EXTENDS Integers, Sequences, FiniteSets, TLC

VARIABLES
    students,               \* Student_Info rows, in file order
    student_preferences,    \* Student_Preference_Info rows, in file order
    sections,               \* Sections_Information rows, in file order
    teacher_unavailability, \* Teacher_unavailability rows, in file order
    periods,                \* the configured period order
    data,                   \* the mappings preprocess_data returns
    sorted_sections,        \* greedy_schedule_sections: sections by priority
    scheduled_sections,     \* Section ID -> period (a dict: partial)
    sorted_students,        \* greedy_assign_students: students by hardness
    student_assignments,    \* Student ID -> list of Section IDs (defaultdict)
    best_sections,          \* phase 2: course -> (section, score) of this student
    sorted_courses,         \* phase 2: this student's courses, best score first
    pc,                     \* the loop the run is in
    i,                      \* position in sorted_sections / sorted_students
    k,                      \* position in special_courses / sorted_courses
    output,                 \* the WARNING lines printed so far
    period_file,            \* Period.csv as it is on disk
    Teacher_Info,           \* Teacher_Info rows (the Teacher IDs), in file order
    X,                      \* the solver's solution: the .X of the variables x, z,
                            \* y, missed_request and capacity_violation, or None
    start,                  \* the start values greedy_initial_solution sets
    status,                 \* model.status after optimize
    SolCount,               \* model.SolCount after optimize
    saved,                  \* what loader.save_solution was called with: a set
    score_call,             \* a call of compute_student_section_score: its
                            \* arguments and what it returned, or None
    job_status              \* the status update_job_status wrote last, or None

\* what the callers of the two modules hold: the batch job's status and the
\* result of a single call of the scoring function
calls == <<score_call, job_status>>

\* the state of the ScheduleOptimizer and of the files it reads and writes
optimizer == <<period_file, Teacher_Info, X, start, status, SolCount, saved>>

vars == <<students, student_preferences, sections, teacher_unavailability,
          periods, data, sorted_sections, scheduled_sections, sorted_students,
          student_assignments, best_sections, sorted_courses, pc, i, k, output,
          optimizer, calls>>

\* what the greedy functions read and never write
inputs == <<students, student_preferences, sections, teacher_unavailability,
            periods, data, optimizer, calls>>

(***************************************************************************)
(* Bounds of the model.                                                    *)
(***************************************************************************)
MaxSections == 2
MaxSeats == 1
MaxUnavailabilityRows == 1
MaxStudentRows == 2

(***************************************************************************)
(* Python values.                                                          *)
(***************************************************************************)
None == "None"

Range(s) == {s[n] : n \in DOMAIN s}

\* d.get(key, default)
GetOr(d, key, default) == IF key \in DOMAIN d THEN d[key] ELSE default

\* [x for x in s if Keep(x)]
RECURSIVE SelectIdx(_, _)
SelectIdx(s, keep) ==
    IF s = <<>> THEN <<>>
    ELSE LET rest == SelectIdx(SubSeq(s, 1, Len(s) - 1), keep)
         IN IF Len(s) \in keep THEN Append(rest, s[Len(s)]) ELSE rest

\* list.index(x): the first position of x
IndexOf(s, x) == CHOOSE n \in DOMAIN s : s[n] = x /\ \A m \in 1..(n - 1) : s[m] # x

(***************************************************************************)
(* Float arithmetic on the scores, as exact fractions.                     *)
(***************************************************************************)
RECURSIVE Gcd(_, _)
Gcd(a, b) == IF b = 0 THEN a ELSE Gcd(b, a % b)

Frac(n, d) == LET g == Gcd(n, d) IN <<n \div g, d \div g>>

Zero == <<0, 1>>
One == <<1, 1>>
MinusOne == <<-1, 1>>

\* f * (n / d)
FMul(f, n, d) == Frac(f[1] * n, f[2] * d)

RECURSIVE Pow(_, _)
Pow(b, e) == IF e = 0 THEN 1 ELSE b * Pow(b, e - 1)

\* a/b < c/d for a, c >= 0 and b, d > 0, by continued fractions
RECURSIVE FLessPos(_, _, _, _)
FLessPos(a, b, c, d) ==
    LET q1 == a \div b
        q2 == c \div d
        r1 == a % b
        r2 == c % d
    IN IF q1 # q2 THEN q1 < q2
       ELSE IF r2 = 0 THEN FALSE
       ELSE IF r1 = 0 THEN TRUE
       ELSE FLessPos(d, r2, b, r1)

\* f < g
FLess(f, g) ==
    IF f[1] < 0 \/ g[1] < 0 THEN f[1] * g[2] < g[1] * f[2]
    ELSE FLessPos(f[1], f[2], g[1], g[2])

\* f > 0
FPos(f) == f[1] > 0

\* an unstable sort: x goes before the elements whose key equals its own
RECURSIVE InsertDesc_BeforeEqual(_, _, _)
InsertDesc_BeforeEqual(s, x, key) ==
    IF s = <<>> THEN <<x>>
    ELSE IF ~FLess(key[x], key[Head(s)]) THEN <<x>> \o s
    ELSE <<Head(s)>> \o InsertDesc_BeforeEqual(Tail(s), x, key)

(***************************************************************************)
(* sorted(ids, key=lambda s: -key[s]): descending, stable.                 *)
(***************************************************************************)
RECURSIVE InsertDesc(_, _, _)
InsertDesc(s, x, key) ==
    IF s = <<>> THEN <<x>>
    ELSE IF FLess(key[Head(s)], key[x]) THEN <<x>> \o s
    ELSE <<Head(s)>> \o InsertDesc(Tail(s), x, key)

RECURSIVE SortDescBy(_, _)
SortDescBy(s, key) ==
    IF s = <<>> THEN <<>>
    ELSE InsertDesc(SortDescBy(SubSeq(s, 1, Len(s) - 1), key), s[Len(s)], key)

(***************************************************************************)
(* preprocess_data                                                         *)
(***************************************************************************)
COMMA == ","
SPACE == " "

\* str.split(','): a cell is a sequence of lexemes (a period name, a comma
\* or a blank); the tokens are the runs between commas, blanks kept.
RECURSIVE Split(_)
Split(cell) ==
    IF \A n \in DOMAIN cell : cell[n] # COMMA THEN <<cell>>
    ELSE LET c == CHOOSE n \in DOMAIN cell :
                      cell[n] = COMMA /\ \A m \in 1..(n - 1) : cell[m] # COMMA
         IN <<SubSeq(cell, 1, c - 1)>> \o Split(SubSeq(cell, c + 1, Len(cell)))

\* DataFrame.set_index(key)[col].to_dict(): the last row of a key wins
LastRow(rows, key) ==
    rows[CHOOSE n \in DOMAIN rows :
             rows[n].id = key /\ \A m \in (n + 1)..Len(rows) : rows[m].id # key]

special_course_periods ==
    [c \in {"Medical Career", "Heroes Teach"} |->
        IF c = "Medical Career" THEN <<"R1", "G1">> ELSE <<"R2", "G2">>]

\* the rows of Teacher_unavailability are read in order; a row with a
\* non-empty cell replaces what the teacher had
RECURSIVE UnavailableMap(_)
UnavailableMap(rows) ==
    IF rows = <<>> THEN <<>>
    ELSE LET before == UnavailableMap(SubSeq(rows, 1, Len(rows) - 1))
             row == rows[Len(rows)]
         IN IF row.cell # <<>>
            THEN [t \in DOMAIN before \cup {row.teacher} |->
                     IF t = row.teacher THEN Split(row.cell) ELSE before[t]]
            ELSE before

preprocess_data(studs, prefs, secs, unavail, pers) ==
    LET ids == {secs[n].id : n \in DOMAIN secs}
        courses == {secs[n].course : n \in DOMAIN secs}
        teachers == {secs[n].teacher : n \in DOMAIN secs}
    IN [course_to_sections |->
            [c \in courses |->
                LET rows == SelectIdx(secs, {n \in DOMAIN secs : secs[n].course = c})
                IN [n \in DOMAIN rows |-> rows[n].id]],
        section_capacity |-> [s \in ids |-> LastRow(secs, s).seats],
        teacher_to_sections |->
            [t \in teachers |->
                LET rows == SelectIdx(secs, {n \in DOMAIN secs : secs[n].teacher = t})
                IN [n \in DOMAIN rows |-> rows[n].id]],
        teacher_unavailable_periods |-> UnavailableMap(unavail),
        student_pref_courses |->
            [s \in {prefs[n].id : n \in DOMAIN prefs} |-> LastRow(prefs, s).courses],
        special_course_periods |-> special_course_periods,
        sped_students |-> {studs[n].id : n \in {m \in DOMAIN studs : studs[m].sped = "Yes"}},
        section_to_course |-> [s \in ids |-> LastRow(secs, s).course],
        section_to_teacher |-> [s \in ids |-> LastRow(secs, s).teacher],
        section_to_dept |-> [s \in ids |-> LastRow(secs, s).dept],
        periods |-> pers]

(***************************************************************************)
(* compute_section_priority                                                *)
(***************************************************************************)
\* 'Science' in department, over the department names of the model
HasScience(dept) == dept \in {"Science"}

ScienceCourses == {"Biology", "Chemistry", "Physics", "AP Biology"}

section_priority_of(row, d) ==
    LET p1 == IF row.course \in DOMAIN d.special_course_periods
              THEN FMul(One, 5, 1) ELSE One
        p2 == IF row.course = "Sports Med" THEN FMul(p1, 3, 1) ELSE p1
        p3 == IF HasScience(row.dept) \/ row.course \in ScienceCourses
              THEN FMul(p2, 5, 2) ELSE p2
        teacher_section_count == Len(d.teacher_to_sections[row.teacher])
        p4 == FMul(p3, 5 + teacher_section_count, 5)
        course_section_count == Len(d.course_to_sections[row.course])
        p5 == FMul(p4, course_section_count + 1, course_section_count)
        student_demand ==
            Cardinality({s \in DOMAIN d.student_pref_courses :
                            row.course \in Range(d.student_pref_courses[s])})
    IN FMul(p5, 1000 + student_demand, 1000)

compute_section_priority(secs, d) ==
    [s \in {secs[n].id : n \in DOMAIN secs} |-> section_priority_of(LastRow(secs, s), d)]

(***************************************************************************)
(* compute_period_score and get_adjacent_periods                           *)
(***************************************************************************)
get_adjacent_periods(period, pers) ==
    LET period_idx == IndexOf(pers, period)
    IN (IF period_idx > 1 THEN {pers[period_idx - 1]} ELSE {})
       \cup (IF period_idx < Len(pers) THEN {pers[period_idx + 1]} ELSE {})

\* the restriction of lines 211-213 left out
ForbiddenPeriod_Never(section_id, period, d) == FALSE

\* lines 211-213: a restricted course outside its listed periods
ForbiddenPeriod(section_id, period, d) ==
    LET course_id == d.section_to_course[section_id]
    IN /\ course_id \in DOMAIN d.special_course_periods
       /\ period \notin Range(d.special_course_periods[course_id])

\* lines 221-223: the period is one of the teacher's tokens
TeacherUnavailable(section_id, period, d) ==
    LET teacher_id == d.section_to_teacher[section_id]
    IN /\ teacher_id \in DOMAIN d.teacher_unavailable_periods
       /\ <<period>> \in Range(d.teacher_unavailable_periods[teacher_id])

\* the conflict test of lines 225-228 looking at the first section only
TeacherConflict_FirstOnly(section_id, period, scheduled, d) ==
    LET mine == d.teacher_to_sections[d.section_to_teacher[section_id]]
    IN mine[1] \in DOMAIN scheduled /\ scheduled[mine[1]] = period

\* lines 225-228: a section of the teacher already sits in the period
TeacherConflict(section_id, period, scheduled, d) ==
    LET teacher_id == d.section_to_teacher[section_id]
    IN \E other_section \in Range(d.teacher_to_sections[teacher_id]) :
          /\ other_section \in DOMAIN scheduled
          /\ scheduled[other_section] = period

compute_period_score(section_id, period, scheduled, d) ==
    LET course_id == d.section_to_course[section_id]
        At(s) == s \in DOMAIN scheduled /\ scheduled[s] = period
        course_sections == d.course_to_sections[course_id]
        period_used == \E n \in DOMAIN course_sections : At(course_sections[n])
        s1 == IF course_id \in DOMAIN d.special_course_periods /\ ~period_used
              THEN FMul(One, 2, 1) ELSE One
        course_period_usage ==
            Cardinality({n \in DOMAIN course_sections : At(course_sections[n])})
        s2 == IF course_period_usage > 0
              THEN FMul(s1, 2, 2 + course_period_usage) ELSE s1
        dept == d.section_to_dept[section_id]
        dept_period_usage ==
            Cardinality({s \in DOMAIN d.section_to_course :
                            d.section_to_dept[s] = dept /\ At(s)})
        s3 == IF dept_period_usage > 0
              THEN FMul(s2, 10, 10 + 3 * dept_period_usage) ELSE s2
        sports_med_period_usage ==
            Cardinality({s \in DOMAIN d.section_to_course :
                            d.section_to_course[s] = "Sports Med" /\ At(s)})
        s4 == IF course_id = "Sports Med" /\ sports_med_period_usage > 0
              THEN FMul(s3, 1, 2) ELSE s3
        adjacent_periods == get_adjacent_periods(period, d.periods)
        adjacent_science_count ==
            Cardinality({s \in DOMAIN d.section_to_dept :
                            /\ HasScience(d.section_to_dept[s])
                            /\ s \in DOMAIN scheduled
                            /\ scheduled[s] \in adjacent_periods})
        s5 == IF HasScience(dept) /\ adjacent_science_count > 0
              THEN FMul(s4, Pow(7, adjacent_science_count), Pow(10, adjacent_science_count))
              ELSE s4
        period_usage == Cardinality({s \in DOMAIN scheduled : scheduled[s] = period})
    IN IF ForbiddenPeriod(section_id, period, d) THEN Zero
       ELSE IF TeacherUnavailable(section_id, period, d) THEN Zero
       ELSE IF TeacherConflict(section_id, period, scheduled, d) THEN Zero
       ELSE FMul(s5, 10, 10 + period_usage)

(***************************************************************************)
(* greedy_schedule_sections: the loop body shared by the four phases       *)
(***************************************************************************)
\* line 301 with >= for >: among equal scores the last period wins
RECURSIVE BestPeriod_LastWins(_, _, _, _)
BestPeriod_LastWins(section_id, pers, scheduled, d) ==
    IF pers = <<>> THEN [period |-> None, score |-> MinusOne]
    ELSE LET before == BestPeriod_LastWins(section_id, SubSeq(pers, 1, Len(pers) - 1),
                                           scheduled, d)
             period == pers[Len(pers)]
             score == compute_period_score(section_id, period, scheduled, d)
         IN IF ~FLess(score, before.score)
            THEN [period |-> period, score |-> score] ELSE before

\* for period in periods: if score > best_score: ...
RECURSIVE BestPeriod(_, _, _, _)
BestPeriod(section_id, pers, scheduled, d) ==
    IF pers = <<>> THEN [period |-> None, score |-> MinusOne]
    ELSE LET before == BestPeriod(section_id, SubSeq(pers, 1, Len(pers) - 1), scheduled, d)
             period == pers[Len(pers)]
             score == compute_period_score(section_id, period, scheduled, d)
         IN IF FLess(before.score, score)
            THEN [period |-> period, score |-> score] ELSE before

\* line 305 with >= for >
CommitPeriod_AtZero(best) == best.period # None /\ ~FLess(best.score, Zero)

\* if best_period and best_score > 0
CommitPeriod(best) == best.period # None /\ FPos(best.score)

\* the fourth loop (lines 349-367) left out: no phase takes the remaining sections
Attempts_NoFourthPhase(phase, section_id, scheduled, d) ==
    CASE phase = 1 -> d.section_to_course[section_id] \in DOMAIN d.special_course_periods
      [] phase = 2 -> /\ section_id \notin DOMAIN scheduled
                      /\ d.section_to_course[section_id] = "Sports Med"
      [] phase = 3 -> /\ section_id \notin DOMAIN scheduled
                      /\ HasScience(d.section_to_dept[section_id])
      [] phase = 4 -> FALSE

\* the phase's test on the section: which sections a phase attempts
Attempts(phase, section_id, scheduled, d) ==
    CASE phase = 1 -> d.section_to_course[section_id] \in DOMAIN d.special_course_periods
      [] phase = 2 -> /\ section_id \notin DOMAIN scheduled
                      /\ d.section_to_course[section_id] = "Sports Med"
      [] phase = 3 -> /\ section_id \notin DOMAIN scheduled
                      /\ HasScience(d.section_to_dept[section_id])
      [] phase = 4 -> section_id \notin DOMAIN scheduled

\* scheduled_sections[section_id] = best_period
SetItem(dict, key, value) ==
    [x \in DOMAIN dict \cup {key} |-> IF x = key THEN value ELSE dict[x]]

ScheduleSection(phase, section_id, scheduled, d) ==
    LET best == BestPeriod(section_id, d.periods, scheduled, d)
    IN IF Attempts(phase, section_id, scheduled, d) /\ CommitPeriod(best)
       THEN SetItem(scheduled, section_id, best.period)
       ELSE scheduled

\* phase 4 only: print(f"WARNING: Could not schedule section {section_id}")
Warns(phase, section_id, scheduled, d) ==
    /\ phase = 4
    /\ Attempts(phase, section_id, scheduled, d)
    /\ ~CommitPeriod(BestPeriod(section_id, d.periods, scheduled, d))

(***************************************************************************)
(* compute_student_section_score                                           *)
(***************************************************************************)
\* student_assignments.get(student_id, [])
SectionsOf(student_id, assignments) == GetOr(assignments, student_id, <<>>)

\* [data['section_to_course'][sec] for sec in student_assignments.get(student_id, [])]
CoursesOf(student_id, assignments, d) ==
    LET mine == SectionsOf(student_id, assignments)
    IN [n \in DOMAIN mine |-> d.section_to_course[mine[n]]]

\* data['student_pref_courses'].get(student_id, [])
PrefsOf(student_id, d) == GetOr(d.student_pref_courses, student_id, <<>>)

\* set(prefs) - set(student_courses)
remaining_courses(student_id, assignments, d) ==
    Range(PrefsOf(student_id, d)) \ Range(CoursesOf(student_id, assignments, d))

\* The orders in which a Python set may hand out its elements.
IterationOrders(S) ==
    {o \in [1..Cardinality(S) -> S] : \A x \in S : \E n \in DOMAIN o : o[n] = x}

\* the test of lines 379-381 left out
NotRequested_Never(student_id, section_id, d) == FALSE

\* the course test of lines 375-377 left out
AlreadyHasCourse_Never(student_id, section_id, assignments, d) == FALSE

\* lines 373-377
AlreadyHasCourse(student_id, section_id, assignments, d) ==
    d.section_to_course[section_id] \in Range(CoursesOf(student_id, assignments, d))

\* lines 379-381
NotRequested(student_id, section_id, d) ==
    d.section_to_course[section_id] \notin Range(PrefsOf(student_id, d))

\* the period test of lines 388-390 left out
PeriodConflict_Never(student_id, section_id, assignments, scheduled) == FALSE

\* lines 383-390
PeriodConflict(student_id, section_id, assignments, scheduled) ==
    LET mine == SectionsOf(student_id, assignments)
    IN GetOr(scheduled, section_id, None) \in
           {GetOr(scheduled, mine[n], None) : n \in DOMAIN mine}

\* line 393
section_students(section_id, assignments) ==
    {s \in DOMAIN assignments : section_id \in Range(assignments[s])}

\* line 394 with > for >= (a section without seats still counts as full)
SectionFull_OneMore(section_id, assignments, d) ==
    LET capacity == GetOr(d.section_capacity, section_id, 0)
    IN capacity = 0 \/ Cardinality(section_students(section_id, assignments)) > capacity

\* lines 392-395
SectionFull(section_id, assignments, d) ==
    Cardinality(section_students(section_id, assignments))
        >= GetOr(d.section_capacity, section_id, 0)

\* lines 411-419: the dict is filled in the set's iteration order and read
\* by key
num_sections_available(course_id, iteration, scheduled, d) ==
    LET remaining_sections ==
            [n \in DOMAIN iteration |->
                [key |-> iteration[n],
                 value |->
                    LET all == GetOr(d.course_to_sections, iteration[n], <<>>)
                    IN SelectIdx(all, {m \in DOMAIN all : all[m] \in DOMAIN scheduled})]]
        hits == {n \in DOMAIN remaining_sections : remaining_sections[n].key = course_id}
    IN IF hits = {} THEN 0
       ELSE Len(remaining_sections[CHOOSE n \in hits : TRUE].value)

compute_student_section_score(student_id, section_id, assignments, scheduled, d, iteration) ==
    LET course_id == d.section_to_course[section_id]
        enrolled == Cardinality(section_students(section_id, assignments))
        capacity == GetOr(d.section_capacity, section_id, 1)
        s1 == Frac(11 * capacity - 10 * enrolled, 10 * capacity)
        sped_count ==
            Cardinality(section_students(section_id, assignments) \cap d.sped_students)
        s2 == IF student_id \in d.sped_students /\ sped_count >= 2
              THEN FMul(s1, 1, Pow(2, sped_count - 1)) ELSE s1
    IN IF AlreadyHasCourse(student_id, section_id, assignments, d) THEN Zero
       ELSE IF NotRequested(student_id, section_id, d) THEN Zero
       ELSE IF GetOr(scheduled, section_id, None) = None THEN Zero
       ELSE IF PeriodConflict(student_id, section_id, assignments, scheduled) THEN Zero
       ELSE IF SectionFull(section_id, assignments, d) THEN Zero
       ELSE IF num_sections_available(course_id, iteration, scheduled, d) <= 2
            THEN FMul(s2, 2, 1)
       ELSE s2

(***************************************************************************)
(* greedy_assign_students                                                  *)
(***************************************************************************)
student_hardness_of(student_id, d) ==
    LET h1 == IF student_id \in d.sped_students THEN FMul(One, 2, 1) ELSE One
        h2 == IF Range(PrefsOf(student_id, d)) \cap {"Medical Career", "Heroes Teach"} # {}
              THEN FMul(h1, 3, 2) ELSE h1
        num_courses == Len(PrefsOf(student_id, d))
    IN FMul(h2, 10 + num_courses, 10)

special_courses == <<"Medical Career", "Heroes Teach", "Sports Med">>

\* student_assignments[student_id].append(section_id)
AppendTo(assignments, student_id, section_id) ==
    SetItem(assignments, student_id,
            Append(SectionsOf(student_id, assignments), section_id))

\* max(available_sections, key=lambda x: x[1])[0]: the first of the best
RECURSIVE MaxFirst(_)
MaxFirst(pairs) ==
    IF Len(pairs) = 1 THEN pairs[1]
    ELSE LET before == MaxFirst(SubSeq(pairs, 1, Len(pairs) - 1))
         IN IF FLess(before.score, pairs[Len(pairs)].score)
            THEN pairs[Len(pairs)] ELSE before

\* lines 462-476 without the look at the schedule and the score: the first
\* section of the course is taken
AssignSpecial_AnySection(student_id, course_id, assignments, scheduled, d, iteration) ==
    LET all == GetOr(d.course_to_sections, course_id, <<>>)
    IN IF course_id \notin Range(PrefsOf(student_id, d)) THEN assignments
       ELSE IF all = <<>> THEN assignments
       ELSE AppendTo(assignments, student_id, all[1])

\* phase 1, one (student, special course) of the double loop
AssignSpecial(student_id, course_id, assignments, scheduled, d, iteration) ==
    LET all == GetOr(d.course_to_sections, course_id, <<>>)
        Score(section_id) ==
            compute_student_section_score(student_id, section_id, assignments,
                                          scheduled, d, iteration)
        scored == [n \in DOMAIN all |-> [section |-> all[n], score |-> Score(all[n])]]
        available_sections ==
            SelectIdx(scored, {n \in DOMAIN all :
                                  all[n] \in DOMAIN scheduled /\ FPos(scored[n].score)})
    IN IF course_id \notin Range(PrefsOf(student_id, d)) THEN assignments
       ELSE IF available_sections = <<>> THEN assignments
       ELSE AppendTo(assignments, student_id, MaxFirst(available_sections).section)

\* phase 2, lines 481-483
needed_courses(student_id, assignments, d) ==
    LET prefs == PrefsOf(student_id, d)
        assigned_courses == Range(CoursesOf(student_id, assignments, d))
    IN SelectIdx(prefs, {n \in DOMAIN prefs :
                            /\ prefs[n] \notin assigned_courses
                            /\ prefs[n] \notin Range(special_courses)})

\* phase 2, lines 490-501: best_score starts at 0, a later section must beat it
RECURSIVE BestSection(_, _, _, _, _, _)
BestSection(student_id, secs, assignments, scheduled, d, iteration) ==
    IF secs = <<>> THEN [section |-> None, score |-> Zero]
    ELSE LET before == BestSection(student_id, SubSeq(secs, 1, Len(secs) - 1),
                                   assignments, scheduled, d, iteration)
             section_id == secs[Len(secs)]
             score == compute_student_section_score(student_id, section_id, assignments,
                                                    scheduled, d, iteration)
         IN IF section_id \in DOMAIN scheduled /\ FLess(before.score, score)
            THEN [section |-> section_id, score |-> score] ELSE before

\* phase 2, lines 486-504: the dict best_sections of one student
BestSections(student_id, assignments, scheduled, d, iteration) ==
    LET needed == needed_courses(student_id, assignments, d)
        Best(c) == BestSection(student_id, GetOr(d.course_to_sections, c, <<>>),
                               assignments, scheduled, d, iteration)
    IN [c \in {x \in Range(needed) : Best(x).section # None} |-> Best(c)]

\* phase 2, line 507: the keys in insertion order, sorted by score, stable
SortedCourses(student_id, best, assignments, d) ==
    LET needed == needed_courses(student_id, assignments, d)
        keys == SelectIdx(needed, {n \in DOMAIN needed :
                                      /\ needed[n] \in DOMAIN best
                                      /\ \A m \in 1..(n - 1) : needed[m] # needed[n]})
    IN SortDescBy(keys, [c \in DOMAIN best |-> best[c].score])

\* lines 511-517 without the second look at the score
AssignChecked_Unchecked(student_id, section_id, assignments, scheduled, d, iteration) ==
    AppendTo(assignments, student_id, section_id)

\* phase 2, lines 511-517: the section is checked again before the append
AssignChecked(student_id, section_id, assignments, scheduled, d, iteration) ==
    IF FPos(compute_student_section_score(student_id, section_id, assignments,
                                          scheduled, d, iteration))
    THEN AppendTo(assignments, student_id, section_id)
    ELSE assignments

\* phase 2, lines 486-507 with the courses taken from a set: the dict keys
\* come in the set's iteration order
PlanCourses_FromSet(student_id, assignments, scheduled, d, iteration) ==
    LET best == BestSections(student_id, assignments, scheduled, d, iteration)
        keys == SelectIdx(iteration, {n \in DOMAIN iteration : iteration[n] \in DOMAIN best})
    IN [best_sections |-> best,
        sorted_courses |-> SortDescBy(keys, [c \in DOMAIN best |-> best[c].score])]

\* phase 2, lines 486-507: best_sections and sorted_courses of one student
PlanCourses(student_id, assignments, scheduled, d, iteration) ==
    LET best == BestSections(student_id, assignments, scheduled, d, iteration)
    IN [best_sections |-> best,
        sorted_courses |-> SortedCourses(student_id, best, assignments, d)]

(***************************************************************************)
(* The two functions as a whole, from their arguments to what they return. *)
(***************************************************************************)
RECURSIVE ScheduleLoop(_, _, _, _)
ScheduleLoop(phase, todo, scheduled, d) ==
    IF todo = <<>> THEN scheduled
    ELSE ScheduleLoop(phase, Tail(todo),
                      ScheduleSection(phase, Head(todo), scheduled, d), d)

greedy_schedule_sections(secs, d) ==
    LET sorted == SortDescBy([n \in DOMAIN secs |-> secs[n].id],
                             compute_section_priority(secs, d))
        first == ScheduleLoop(1, sorted, <<>>, d)
        second == ScheduleLoop(2, sorted, first, d)
        third == ScheduleLoop(3, sorted, second, d)
    IN ScheduleLoop(4, sorted, third, d)

\* one of the orders a set may be iterated in
AnIteration(student_id, assignments, d) ==
    CHOOSE o \in IterationOrders(remaining_courses(student_id, assignments, d)) : TRUE

\* In the four loops below the assignments after one step are a value
\* before the next step starts, as in the Python loop: the step is bound
\* as the one element of a set.
RECURSIVE SpecialCourseLoop(_, _, _, _, _)
SpecialCourseLoop(student_id, todo, assignments, scheduled, d) ==
    IF todo = <<>> THEN assignments
    ELSE CHOOSE result \in
             {SpecialCourseLoop(student_id, Tail(todo), after, scheduled, d) :
                 after \in {AssignSpecial(student_id, Head(todo), assignments, scheduled, d,
                                          AnIteration(student_id, assignments, d))}} : TRUE

RECURSIVE SpecialLoop(_, _, _, _)
SpecialLoop(todo, assignments, scheduled, d) ==
    IF todo = <<>> THEN assignments
    ELSE CHOOSE result \in
             {SpecialLoop(Tail(todo), after, scheduled, d) :
                 after \in {SpecialCourseLoop(Head(todo), special_courses, assignments,
                                              scheduled, d)}} : TRUE

RECURSIVE CommitLoop(_, _, _, _, _, _)
CommitLoop(student_id, todo, best, assignments, scheduled, d) ==
    IF todo = <<>> THEN assignments
    ELSE CHOOSE result \in
             {CommitLoop(student_id, Tail(todo), best, after, scheduled, d) :
                 after \in {AssignChecked(student_id, best[Head(todo)].section, assignments,
                                          scheduled, d,
                                          AnIteration(student_id, assignments, d))}} : TRUE

RECURSIVE RegularLoop(_, _, _, _)
RegularLoop(todo, assignments, scheduled, d) ==
    IF todo = <<>> THEN assignments
    ELSE LET plan == PlanCourses(Head(todo), assignments, scheduled, d,
                                 AnIteration(Head(todo), assignments, d))
         IN CHOOSE result \in
                {RegularLoop(Tail(todo), after, scheduled, d) :
                    after \in {CommitLoop(Head(todo), plan.sorted_courses,
                                          plan.best_sections, assignments, scheduled, d)}} :
                TRUE

greedy_assign_students(studs, scheduled, d) ==
    LET sorted == SortDescBy([n \in DOMAIN studs |-> studs[n].id],
                             [s \in {studs[n].id : n \in DOMAIN studs} |->
                                 student_hardness_of(s, d)])
    IN RegularLoop(sorted, SpecialLoop(sorted, <<>>, scheduled, d), scheduled, d)

(***************************************************************************)
(* The input tables of the model.                                          *)
(***************************************************************************)
Teachers == {"T1", "T2"}

\* (Course ID, Department) of a Sections_Information row
Offerings ==
    {<<"Medical Career", "CTE">>, <<"Sports Med", "PE">>,
     <<"Biology", "Science">>, <<"Algebra", "Math">>}

\* Section IDs are unique: the row number
SectionRow(n, offering, teacher, seats) ==
    [id |-> ToString(n), course |-> offering[1], dept |-> offering[2],
     teacher |-> teacher, seats |-> seats]

SectionTables(Seats) ==
    UNION {{[n \in 1..len |-> SectionRow(n, f[n][1], f[n][2], f[n][3])] :
               f \in [1..len -> Offerings \X Teachers \X Seats]} :
           len \in 1..MaxSections}

\* Unavailable Periods cells: one period, two periods, two periods written
\* with a blank after the comma
Cells ==
    {<<"R1">>, <<"R2">>, <<"R1", COMMA, "R2">>, <<"R1", COMMA, SPACE, "R2">>}

\* The rows all name T1: the section tables hold every assignment of T1 and
\* T2, so which of the two teachers has the rows does not matter.
UnavailabilityTables ==
    UNION {[1..len -> [teacher : {"T1"}, cell : Cells]] :
           len \in 0..MaxUnavailabilityRows}

PeriodOrders == {<<"R1", "R2">>, <<"R2", "G1", "R1">>}

(***************************************************************************)
(* The run.                                                                *)
(***************************************************************************)
Loaded(SecT, StuT, PrefT, UnT, PerT) ==
    /\ sections \in SecT
    /\ students \in StuT
    /\ student_preferences \in PrefT
    /\ teacher_unavailability \in UnT
    /\ periods \in PerT
    /\ data = preprocess_data(students, student_preferences, sections,
                              teacher_unavailability, periods)
    /\ sorted_sections = <<>>
    /\ scheduled_sections = <<>>
    /\ sorted_students = <<>>
    /\ student_assignments = <<>>
    /\ best_sections = <<>>
    /\ sorted_courses = <<>>
    /\ pc = "loaded"
    /\ i = 1
    /\ k = 1
    /\ output = <<>>
    /\ period_file = None
    /\ Teacher_Info = <<>>
    /\ X = None
    /\ start = None
    /\ status = None
    /\ SolCount = 0
    /\ saved = {}
    /\ score_call = None
    /\ job_status = None

Init ==
    Loaded(SectionTables({1}),
           {<<[id |-> "A", sped |-> "Yes"]>>},
           {<<[id |-> "A", courses |-> <<"Medical Career", "Algebra">>]>>},
           UnavailabilityTables, PeriodOrders)

\* greedy_schedule_sections, lines 280-289
ScheduleBegin ==
    /\ pc = "loaded"
    /\ sorted_sections' =
           SortDescBy([n \in DOMAIN sections |-> sections[n].id],
                      compute_section_priority(sections, data))
    /\ scheduled_sections' = <<>>
    /\ pc' = "phase1"
    /\ i' = 1
    /\ UNCHANGED <<inputs, sorted_students, student_assignments, best_sections,
                   sorted_courses, k, output>>

PhaseName(phase) == <<"phase1", "phase2", "phase3", "phase4", "scheduled">>[phase]

\* one pass of the body of a phase's for loop
SchedulePhase(phase) ==
    /\ pc = PhaseName(phase)
    /\ i <= Len(sorted_sections)
    /\ scheduled_sections' =
           ScheduleSection(phase, sorted_sections[i], scheduled_sections, data)
    /\ output' = IF Warns(phase, sorted_sections[i], scheduled_sections, data)
                 THEN Append(output, sorted_sections[i]) ELSE output
    /\ i' = i + 1
    /\ UNCHANGED <<inputs, sorted_sections, sorted_students, student_assignments,
                   best_sections, sorted_courses, pc, k>>

SchedulePhase1 == SchedulePhase(1)
SchedulePhase2 == SchedulePhase(2)
SchedulePhase3 == SchedulePhase(3)
SchedulePhase4 == SchedulePhase(4)

\* a phase's for loop is exhausted; after the fourth the schedule is returned
SchedulePhaseEnd ==
    /\ \E phase \in 1..4 : pc = PhaseName(phase) /\ pc' = PhaseName(phase + 1)
    /\ i > Len(sorted_sections)
    /\ i' = 1
    /\ UNCHANGED <<inputs, sorted_sections, scheduled_sections, sorted_students,
                   student_assignments, best_sections, sorted_courses, k, output>>

\* greedy_assign_students, lines 429-452
AssignBegin ==
    /\ pc = "scheduled"
    /\ sorted_students' =
           SortDescBy([n \in DOMAIN students |-> students[n].id],
                      [s \in {students[n].id : n \in DOMAIN students} |->
                          student_hardness_of(s, data)])
    /\ student_assignments' = <<>>
    /\ pc' = "special"
    /\ i' = 1
    /\ k' = 1
    /\ UNCHANGED <<inputs, sorted_sections, scheduled_sections, best_sections,
                   sorted_courses, output>>

\* phase 1: one special course of one student
AssignPhase1 ==
    /\ pc = "special"
    /\ i <= Len(sorted_students)
    /\ \E iteration \in IterationOrders(
              remaining_courses(sorted_students[i], student_assignments, data)) :
          student_assignments' =
              AssignSpecial(sorted_students[i], special_courses[k], student_assignments,
                            scheduled_sections, data, iteration)
    /\ IF k < Len(special_courses)
       THEN k' = k + 1 /\ i' = i
       ELSE k' = 1 /\ i' = i + 1
    /\ UNCHANGED <<inputs, sorted_sections, scheduled_sections, sorted_students,
                   best_sections, sorted_courses, pc, output>>

AssignPhase1End ==
    /\ pc = "special"
    /\ i > Len(sorted_students)
    /\ pc' = "regular"
    /\ i' = 1
    /\ UNCHANGED <<inputs, sorted_sections, scheduled_sections, sorted_students,
                   student_assignments, best_sections, sorted_courses, k, output>>

\* phase 2, lines 480-507: the student's best section per needed course
AssignPhase2Plan ==
    /\ pc = "regular"
    /\ i <= Len(sorted_students)
    /\ \E iteration \in IterationOrders(
              remaining_courses(sorted_students[i], student_assignments, data)) :
          LET plan == PlanCourses(sorted_students[i], student_assignments,
                                  scheduled_sections, data, iteration)
          IN /\ best_sections' = plan.best_sections
             /\ sorted_courses' = plan.sorted_courses
    /\ pc' = "commit"
    /\ k' = 1
    /\ UNCHANGED <<inputs, sorted_sections, scheduled_sections, sorted_students,
                   student_assignments, i, output>>

\* phase 2, lines 510-518: one course of sorted_courses
AssignPhase2Commit ==
    /\ pc = "commit"
    /\ k <= Len(sorted_courses)
    /\ \E iteration \in IterationOrders(
              remaining_courses(sorted_students[i], student_assignments, data)) :
          student_assignments' =
              AssignChecked(sorted_students[i], best_sections[sorted_courses[k]].section,
                            student_assignments, scheduled_sections, data, iteration)
    /\ k' = k + 1
    /\ UNCHANGED <<inputs, sorted_sections, scheduled_sections, sorted_students,
                   best_sections, sorted_courses, pc, i, output>>

\* phase 2: the student's courses are exhausted, on to the next student
AssignPhase2Next ==
    /\ pc = "commit"
    /\ k > Len(sorted_courses)
    /\ pc' = "regular"
    /\ i' = i + 1
    /\ UNCHANGED <<inputs, sorted_sections, scheduled_sections, sorted_students,
                   student_assignments, best_sections, sorted_courses, k, output>>

\* line 520: return student_assignments
AssignEnd ==
    /\ pc = "regular"
    /\ i > Len(sorted_students)
    /\ pc' = "done"
    /\ UNCHANGED <<inputs, sorted_sections, scheduled_sections, sorted_students,
                   student_assignments, best_sections, sorted_courses, i, k, output>>

Next ==
    \/ ScheduleBegin
    \/ SchedulePhase1
    \/ SchedulePhase2
    \/ SchedulePhase3
    \/ SchedulePhase4
    \/ SchedulePhaseEnd
    \/ AssignBegin
    \/ AssignPhase1
    \/ AssignPhase1End
    \/ AssignPhase2Plan
    \/ AssignPhase2Commit
    \/ AssignPhase2Next
    \/ AssignEnd

Spec == Init /\ [][Next]_vars

(***************************************************************************)
(* Properties of the section schedule.                                     *)
(***************************************************************************)
SectionIds == {sections[n].id : n \in DOMAIN sections}

Scheduled(s) == s \in DOMAIN scheduled_sections

\* the allowed-period set of a section: its course's listed periods when the
\* course is period-restricted, the configured periods otherwise
AllowedPeriods(s) ==
    IF data.section_to_course[s] \in DOMAIN special_course_periods
    THEN Range(special_course_periods[data.section_to_course[s]])
    ELSE Range(periods)

\* C1: in every state of the run, each scheduled section's period lies in
\* its allowed-period set.
C1_PeriodAllowed ==
    \A s \in DOMAIN scheduled_sections : scheduled_sections[s] \in AllowedPeriods(s)

\* C1 happens: the run is over and a period-restricted section is scheduled
\* although the period order offers it a period outside its list first.
C1_Witness ==
    /\ pc = "done"
    /\ \E s \in DOMAIN scheduled_sections :
          /\ data.section_to_course[s] = "Medical Career"
          /\ periods[1] \notin AllowedPeriods(s)
          /\ scheduled_sections[s] = "G1"

\* C2: in every state of the run, no teacher has two sections in one period.
C2_NoTeacherOverlap ==
    \A s1, s2 \in DOMAIN scheduled_sections :
        (s1 # s2 /\ LastRow(sections, s1).teacher = LastRow(sections, s2).teacher)
            => scheduled_sections[s1] # scheduled_sections[s2]

\* C2 happens: the run is over and one teacher has two or more scheduled sections.
C2_Witness ==
    /\ pc = "done"
    /\ \E t \in Teachers :
          Cardinality({s \in DOMAIN scheduled_sections : data.section_to_teacher[s] = t}) >= 2

\* greedy_schedule_sections has returned
ScheduleReturned == pc \notin {"loaded", "phase1", "phase2", "phase3", "phase4"}

\* the periods the Teacher_unavailability rows of a teacher name
ListedUnavailable(teacher) ==
    {p \in Range(periods) :
        \E n \in DOMAIN teacher_unavailability :
            /\ teacher_unavailability[n].teacher = teacher
            /\ p \in Range(teacher_unavailability[n].cell)}

\* C3: the returned schedule never places a section in a period listed as
\* unavailable for the section's teacher.
C3_NeverInUnavailablePeriod ==
    ScheduleReturned =>
        \A s \in DOMAIN scheduled_sections :
            scheduled_sections[s] \notin ListedUnavailable(LastRow(sections, s).teacher)

\* every period scores 0 for the section in the schedule as it stands
AllPeriodsZero(s) ==
    \A n \in DOMAIN periods :
        ~FPos(compute_period_score(s, periods[n], scheduled_sections, data))

InSchedulePhase == pc \in {"phase1", "phase2", "phase3", "phase4"}

\* C9: a section for which every period scores 0 is left out of the schedule
\* and the loop moves on to the next section with the schedule as it was; a
\* section enters the schedule only at a period that scored above 0.
C9_ZeroScoreNeverCommitted ==
    [][/\ \A s \in SectionIds :
             (~Scheduled(s) /\ s \in DOMAIN scheduled_sections')
                 => FPos(compute_period_score(s, scheduled_sections'[s],
                                              scheduled_sections, data))
       /\ (InSchedulePhase /\ i <= Len(sorted_sections)
             /\ AllPeriodsZero(sorted_sections[i]))
            => /\ scheduled_sections' = scheduled_sections
               /\ i' = i + 1
               /\ pc' = pc]_vars

\* C9 happens: the schedule is returned, a section whose only offered period
\* is one its teacher is unavailable in is absent, and other sections are in.
C9_Witness ==
    /\ pc = "scheduled"
    /\ \E s \in SectionIds :
          /\ ~Scheduled(s)
          /\ Cardinality(AllowedPeriods(s) \cap Range(periods)) = 1
          /\ \A p \in AllowedPeriods(s) \cap Range(periods) :
                TeacherUnavailable(s, p, data)
          /\ \E other \in SectionIds : other # s /\ Scheduled(other)

\* what main() holds when the two greedy calls have returned (lines 732-733)
RunResult ==
    [scheduled_sections |-> scheduled_sections,
     student_assignments |-> student_assignments]

\* the diagnostics list of a result
Diagnostics(result) ==
    IF "diagnostics" \in DOMAIN result THEN result.diagnostics ELSE {}

\* the missed requests recorded in a result
MissedRecorded(result) ==
    IF "missed_requests" \in DOMAIN result THEN result.missed_requests ELSE {}

\* the requests (student, course) no enrolled section meets
MissedRequests(assignments, d) ==
    {r \in UNION {{<<s, c>> : c \in Range(d.student_pref_courses[s])} :
                    s \in DOMAIN d.student_pref_courses} :
        r[2] \notin Range(CoursesOf(r[1], assignments, d))}

\* C10: after the run every section that could not be scheduled is in the
\* result's diagnostics list and every unmet request is in the result as a
\* missed request.
C10_NonFatalRecorded ==
    pc = "done" =>
        /\ \A s \in SectionIds : ~Scheduled(s) => s \in Diagnostics(RunResult)
        /\ MissedRequests(student_assignments, data) \subseteq MissedRecorded(RunResult)

(***************************************************************************)
(* The runs that exercise the student assigner: three section layouts with *)
(* every seat count, Student_Info tables in which an id may occur twice,   *)
(* request lists that may name a course twice.                             *)
(***************************************************************************)
SeatCounts == 0..MaxSeats

Layouts ==
    {<<<<"Algebra", "Math", "T1">>, <<"Algebra", "Math", "T1">>, <<"Biology", "Science", "T2">>>>,
     <<<<"Sports Med", "PE", "T1">>, <<"Sports Med", "PE", "T1">>, <<"Algebra", "Math", "T2">>>>,
     <<<<"Medical Career", "CTE", "T1">>, <<"Sports Med", "PE", "T2">>, <<"Algebra", "Math", "T1">>>>}

AssignSectionTables ==
    {[n \in 1..3 |-> SectionRow(n, <<layout[n][1], layout[n][2]>>, layout[n][3], seats[n])] :
        layout \in Layouts, seats \in [1..3 -> SeatCounts]}

\* student A is SPED, student B is not; a table may list a student twice
StudentTables ==
    UNION {[1..len -> {[id |-> "A", sped |-> "Yes"], [id |-> "B", sped |-> "No"]}] :
           len \in 1..MaxStudentRows}

RequestLists ==
    {<<"Algebra">>, <<"Biology", "Algebra">>, <<"Algebra", "Biology", "Algebra">>,
     <<"Medical Career", "Algebra">>, <<"Sports Med", "Algebra", "Sports Med">>}

PreferenceTables ==
    {<<[id |-> "A", courses |-> a], [id |-> "B", courses |-> b]>> :
        a \in RequestLists, b \in RequestLists}

InitAssign ==
    Loaded(AssignSectionTables, StudentTables, PreferenceTables, {<<>>}, {<<"R1", "R2">>})

SpecAssign == InitAssign /\ [][Next]_vars

(***************************************************************************)
(* Properties of the enrollment.                                           *)
(***************************************************************************)
StudentIds == {students[n].id : n \in DOMAIN students}

\* the sections a student holds, as positions of the student's list
Held(s) == DOMAIN SectionsOf(s, student_assignments)

\* C4: in every state of greedy_assign_students no student holds two
\* sections scheduled in the same period.
C4_NoStudentPeriodOverlap ==
    \A s \in DOMAIN student_assignments :
        \A m, n \in Held(s) :
            m # n => GetOr(scheduled_sections, student_assignments[s][m], None)
                        # GetOr(scheduled_sections, student_assignments[s][n], None)

\* C4 happens: a student who requested two courses whose sections share a
\* period ends the run holding one of them only.
C4_Witness ==
    /\ pc = "done"
    /\ \E s \in DOMAIN student_assignments :
          \E x, y \in DOMAIN scheduled_sections :
              /\ x # y
              /\ scheduled_sections[x] = scheduled_sections[y]
              /\ data.section_to_course[x] \in Range(PrefsOf(s, data))
              /\ data.section_to_course[y] \in Range(PrefsOf(s, data))
              /\ x \in Range(student_assignments[s])
              /\ data.section_capacity[y] >
                     Cardinality(section_students(y, student_assignments))

\* C5: in every state of greedy_assign_students no student holds two
\* sections of the same course.
C5_OneSectionPerCourse ==
    \A s \in DOMAIN student_assignments :
        \A m, n \in Held(s) :
            m # n => data.section_to_course[student_assignments[s][m]]
                        # data.section_to_course[student_assignments[s][n]]

\* C5 happens: a student listed twice in Student_Info whose request list
\* names a course twice holds a section of that course, and a second section
\* of the course still has a seat, in another period.
C5_Witness ==
    /\ pc = "done"
    /\ \E s \in DOMAIN student_assignments :
          /\ Cardinality({n \in DOMAIN students : students[n].id = s}) >= 2
          /\ \E m, n \in DOMAIN PrefsOf(s, data) :
                /\ m # n
                /\ PrefsOf(s, data)[m] = PrefsOf(s, data)[n]
                /\ \E x, y \in DOMAIN scheduled_sections :
                      /\ x # y
                      /\ data.section_to_course[x] = PrefsOf(s, data)[m]
                      /\ data.section_to_course[y] = PrefsOf(s, data)[m]
                      /\ x \in Range(student_assignments[s])
                      /\ ~PeriodConflict(s, y, student_assignments, scheduled_sections)
                      /\ ~SectionFull(y, student_assignments, data)

\* two students who each request course c and nothing else, c having one
\* section, of one seat, that is scheduled
TwoForOneSeat(c) ==
    /\ Cardinality(StudentIds) = 2
    /\ \A s \in StudentIds : PrefsOf(s, data) = <<c>>
    /\ c \in DOMAIN data.course_to_sections
    /\ Len(data.course_to_sections[c]) = 1
    /\ data.section_capacity[data.course_to_sections[c][1]] = 1
    /\ Scheduled(data.course_to_sections[c][1])

\* C6: in every state of greedy_assign_students a section holds at most as
\* many students as it has seats; of two students competing for the one seat
\* of a course exactly one is enrolled when the run ends.
C6_CapacityRespected ==
    /\ \A x \in SectionIds :
          Cardinality(section_students(x, student_assignments))
              <= data.section_capacity[x]
    /\ \A c \in DOMAIN data.course_to_sections :
          (pc = "done" /\ TwoForOneSeat(c))
              => Cardinality(section_students(data.course_to_sections[c][1],
                                              student_assignments)) = 1

\* C6 happens: the run ends with two students having competed for the one
\* seat of a course, one enrolled and one not.
C6_Witness ==
    /\ pc = "done"
    /\ \E c \in DOMAIN data.course_to_sections :
          /\ TwoForOneSeat(c)
          /\ \E s \in StudentIds :
                data.course_to_sections[c][1] \notin Range(SectionsOf(s, student_assignments))

(***************************************************************************)
(* Properties of the two functions together.                               *)
(***************************************************************************)
\* C7: whatever order the sets of a run are iterated in, the run ends with
\* the Section -> Period map and the Student -> Sections lists that the
\* input tables alone determine.
C7_ResultFixedByInput ==
    pc = "done" =>
        /\ scheduled_sections = greedy_schedule_sections(sections, data)
        /\ student_assignments =
               greedy_assign_students(students, greedy_schedule_sections(sections, data), data)

\* C7 happens: the run is over, and a student who requested two or more
\* courses placed in phase 2 holds a section of every requested course, so
\* the set of remaining courses was iterated with more than one member.
C7_Witness ==
    /\ pc = "done"
    /\ \E s \in DOMAIN student_assignments :
          /\ Len(student_assignments[s]) >= 2
          /\ Cardinality(Range(PrefsOf(s, data)) \ Range(special_courses)) >= 2
          /\ \A c \in Range(PrefsOf(s, data)) : c \in Range(CoursesOf(s, student_assignments, data))

\* the number of missed requests of a whole run on the given tables
MissedCount(studs, prefs, secs, unavail, pers) ==
    LET d == preprocess_data(studs, prefs, secs, unavail, pers)
        scheduled == greedy_schedule_sections(secs, d)
    IN Cardinality(MissedRequests(greedy_assign_students(studs, scheduled, d), d))

\* the Sections table with one more seat in row n
WithOneMoreSeat(n) == [sections EXCEPT ![n].seats = @ + 1]

\* C8: one more seat in any one section never increases the number of missed
\* requests of the run.
C8_MoreSeatsNeverMoreMissed ==
    pc = "done" =>
        \A n \in DOMAIN sections :
            MissedCount(students, student_preferences, WithOneMoreSeat(n),
                        teacher_unavailability, periods)
                <= Cardinality(MissedRequests(student_assignments, data))

(***************************************************************************)
(* ScheduleOptimizer (core/milp_soft.py).                                  *)
(*                                                                         *)
(* self.students, self.student_preferences, self.sections,                 *)
(* self.teacher_unavailability and self.periods are the variables          *)
(* students, student_preferences, sections, teacher_unavailability and     *)
(* periods; self.teachers is Teacher_Info.  A point is a value for every   *)
(* solver variable: a record of the functions x, z, y, missed_request and  *)
(* capacity_violation, each from the keys of the Python dict of that name. *)
(***************************************************************************)
\* __init__, line 56
DefaultPeriods == <<"R1", "R2", "R3", "R4", "G1", "G2", "G3", "G4">>

\* __init__, lines 59-62
course_period_restrictions ==
    [c \in {"Medical Career", "Heroes Teach"} |->
        IF c = "Medical Career" THEN <<"R1", "G1">> ELSE <<"R2", "G2">>]

\* __init__, lines 65-69: Course ID -> its Section IDs in row order
course_to_sections ==
    [c \in {sections[n].course : n \in DOMAIN sections} |->
        LET rows == SelectIdx(sections, {n \in DOMAIN sections : sections[n].course = c})
        IN [n \in DOMAIN rows |-> rows[n].id]]

get_allowed_periods(course_id) ==
    GetOr(course_period_restrictions, course_id, periods)

\* student_preferences[... == student_id]['Preferred Sections'].iloc[0].split(';')
\* the first row of the student
requested_courses(student_id) ==
    student_preferences[CHOOSE n \in DOMAIN student_preferences :
        /\ student_preferences[n].id = student_id
        /\ \A m \in 1..(n - 1) : student_preferences[m].id # student_id].courses

StudentIdSet == {students[n].id : n \in DOMAIN students}

SectionIdSet == {sections[n].id : n \in DOMAIN sections}

\* the requested courses of a student that have sections
offered_courses(student_id) ==
    Range(requested_courses(student_id)) \cap DOMAIN course_to_sections

\* create_variables, lines 99-112: the keys of self.x
x_keys ==
    UNION {{<<student_id, section_id>> :
               section_id \in UNION {Range(course_to_sections[c]) :
                                        c \in offered_courses(student_id)}} :
           student_id \in StudentIdSet}

\* create_variables, lines 115-127: the keys of self.z
z_keys ==
    UNION {{<<sections[n].id, p>> : p \in Range(get_allowed_periods(sections[n].course))} :
              n \in DOMAIN sections}

\* create_variables, lines 130-137: the keys of self.y
y_keys ==
    LET self_z == z_keys
    IN UNION {{<<key[1], key[2], period>> :
                  period \in {p \in Range(periods) : <<key[2], p>> \in self_z}} :
              key \in x_keys}

\* create_variables, lines 141-153: the keys of self.missed_request
missed_keys ==
    UNION {{<<student_id, course_id>> : course_id \in offered_courses(student_id)} :
           student_id \in StudentIdSet}

\* create_variables, lines 156-163: the keys of self.capacity_violation
capacity_keys == SectionIdSet

\* sum of a list of numbers
RECURSIVE Sum(_)
Sum(s) == IF s = <<>> THEN 0 ELSE Head(s) + Sum(Tail(s))

\* gp.quicksum(var[KeyOf(row)] for row in rows if KeyOf(row) in var)
quicksum(var, rows, KeyOf(_)) ==
    LET kept == SelectIdx(rows, {n \in DOMAIN rows : KeyOf(rows[n]) \in DOMAIN var})
    IN Sum([n \in DOMAIN kept |-> var[KeyOf(kept[n])]])

(***************************************************************************)
(* add_constraints.  Each constraint is an operator over the values of the *)
(* variables it names.                                                     *)
(***************************************************************************)
\* lines 172-178: each section in exactly one period
one_period(zv, section_id) ==
    LET valid_periods ==
            SelectIdx(periods, {n \in DOMAIN periods :
                                    <<section_id, periods[n]>> \in DOMAIN zv})
    IN valid_periods # <<>> =>
           Sum([n \in DOMAIN valid_periods |-> zv[<<section_id, valid_periods[n]>>]]) = 1

\* lines 181-189: enrollment <= capacity + capacity_violation
soft_capacity(xv, cv, section) ==
    quicksum(xv, students, LAMBDA student : <<student.id, section.id>>)
        <= section.seats + cv[section.id]

\* lines 198-206: section enrollments of a requested course + missed == 1
soft_course_requirement(xv, mv, student_id, course_id) ==
    quicksum(xv, course_to_sections[course_id],
             LAMBDA section_id : <<student_id, section_id>>)
        + mv[<<student_id, course_id>>] = 1

\* lines 211-213: the sections whose Teacher Assigned is the teacher
teacher_sections(teacher_id) ==
    SelectIdx(sections, {n \in DOMAIN sections : sections[n].teacher = teacher_id})

\* lines 215-221: a teacher of Teacher_Info has at most one section a period
teacher_conflict(zv, teacher_id, period) ==
    quicksum(zv, teacher_sections(teacher_id), LAMBDA section : <<section.id, period>>) <= 1

\* lines 224-231: a student has at most one y a period
student_period_conflict(yv, student_id, period) ==
    quicksum(yv, sections, LAMBDA section : <<student_id, section.id, period>>) <= 1

\* lines 234-246: the linking of a y with its x and its z, with the lower
\* bound left out
link_NoLowerBound(yv, xv, zv, key) ==
    /\ yv[key] <= xv[<<key[1], key[2]>>]
    /\ yv[key] <= zv[<<key[2], key[3]>>]

\* lines 234-246: y <= x, y <= z, y >= x + z - 1
link(yv, xv, zv, key) ==
    /\ yv[key] <= xv[<<key[1], key[2]>>]
    /\ yv[key] <= zv[<<key[2], key[3]>>]
    /\ yv[key] >= xv[<<key[1], key[2]>>] + zv[<<key[2], key[3]>>] - 1

\* a SPED cell is the text of the CSV field; read_csv makes the number 1 of
\* "1" and the boolean True of "True", and both compare equal to 1
ReadsAsOne(cell) == cell \in {"1", "True"}

\* line 249: self.students[self.students['SPED'] == 1]
sped_students == SelectIdx(students, {n \in DOMAIN students : ReadsAsOne(students[n].sped)})

\* lines 250-256: at most 12 of sped_students in a section
sped_distribution(xv, section_id) ==
    quicksum(xv, sped_students, LAMBDA student : <<student.id, section_id>>) <= 12

\* the constraints of a student's requested courses, lines 192-206
soft_course_requirements(xv, mv, student_id) ==
    \A course_id \in offered_courses(student_id) :
        soft_course_requirement(xv, mv, student_id, course_id)

teacher_conflicts(zv) ==
    \A t \in DOMAIN Teacher_Info : \A p \in DOMAIN periods :
        teacher_conflict(zv, Teacher_Info[t], periods[p])

student_period_conflicts(yv) ==
    \A n \in DOMAIN students : \A p \in DOMAIN periods :
        student_period_conflict(yv, students[n].id, periods[p])

sped_distributions(xv) ==
    \A n \in DOMAIN sections : sped_distribution(xv, sections[n].id)

\* add_constraints, lines 168-258: a point satisfies every constraint
add_constraints(P) ==
    /\ \A n \in DOMAIN sections : one_period(P.z, sections[n].id)
    /\ \A n \in DOMAIN sections : soft_capacity(P.x, P.capacity_violation, sections[n])
    /\ \A n \in DOMAIN students :
          soft_course_requirements(P.x, P.missed_request, students[n].id)
    /\ teacher_conflicts(P.z)
    /\ student_period_conflicts(P.y)
    /\ \A key \in DOMAIN P.y : link(P.y, P.x, P.z, key)
    /\ sped_distributions(P.x)

\* the sum of the values of a dict: each value times the number of its keys
RECURSIVE Weighted(_, _)
Weighted(f, values) ==
    IF values = {} THEN 0
    ELSE LET v == CHOOSE v \in values : TRUE
         IN v * Cardinality({key \in DOMAIN f : f[key] = v}) + Weighted(f, values \ {v})

Total(f) == Weighted(f, {f[key] : key \in DOMAIN f})

\* set_objective, lines 269-277
objective(P) == 1000 * Total(P.missed_request) + Total(P.capacity_violation)

(***************************************************************************)
(* The solver.  model.optimize() is Gurobi: what it returns is not fixed   *)
(* by the source, only bounded by it.  A solution is any point of the      *)
(* variables' domains (GRB.BINARY: 0 or 1; GRB.INTEGER with lb=0: a        *)
(* natural number, capped here by MaxOverflow) that satisfies              *)
(* add_constraints.  The points are enumerated variable group by variable  *)
(* group, each group filtered by the constraints that name only it and     *)
(* the groups before it; the complete point is then held against           *)
(* add_constraints as a whole.                                             *)
(***************************************************************************)
MaxOverflow == 1

\* the functions f on the keys with May(key, f[key]) for every key, where
\* May tells which of the values 0 and 1 a key may take
Choices01(keys, May(_, _)) ==
    IF \E key \in keys : ~May(key, 0) /\ ~May(key, 1) THEN {}
    ELSE {g @@ [key \in {one \in keys : ~May(one, 0)} |-> 1]
            @@ [key \in {zero \in keys : ~May(zero, 1)} |-> 0] :
          g \in [{key \in keys : May(key, 0) /\ May(key, 1)} -> {0, 1}]}

\* the functions that are the union of one function of each set of a list
RECURSIVE Product(_)
Product(sets) ==
    IF sets = <<>> THEN {<<>>}
    ELSE {f @@ g : f \in Head(sets), g \in Product(Tail(sets))}

\* the values of z of one section that satisfy its one_period constraint
z_row_values(section) ==
    {r \in [{<<section.id, p>> : p \in Range(get_allowed_periods(section.course))}
               -> {0, 1}] :
        one_period(r, section.id)}

z_values ==
    {zv \in Product([n \in DOMAIN sections |-> z_row_values(sections[n])]) :
        teacher_conflicts(zv)}

x_values == {xv \in [x_keys -> {0, 1}] : sped_distributions(xv)}

missed_values(xv) ==
    Choices01(missed_keys,
              LAMBDA key, v : soft_course_requirement(xv, key :> v, key[1], key[2]))

\* the values of y on the given keys that satisfy the linking constraints
y_values(xv, zv, keys) ==
    Choices01(keys, LAMBDA key, v : link(key :> v, xv, zv, key))

capacity_violation_values(xv) ==
    {cv \in [capacity_keys -> 0..MaxOverflow] :
        \A n \in DOMAIN sections : soft_capacity(xv, cv, sections[n])}

\* the points with the given x and z
Points(xv, zv, keys) ==
    [x : {xv}, z : {zv}, y : y_values(xv, zv, keys),
     missed_request : missed_values(xv),
     capacity_violation : capacity_violation_values(xv)]

\* the solutions: the points that satisfy add_constraints
Solutions ==
    LET keys == y_keys
    IN {P \in UNION {Points(xv, zv, keys) : xv \in x_values, zv \in z_values} :
           add_constraints(P)}

\* the model is feasible: there is a solution
Feasible ==
    LET keys == y_keys
    IN \E xv \in x_values : \E zv \in z_values : \E P \in Points(xv, zv, keys) :
          add_constraints(P)

\* the least objective of the solutions
MinObjective(solutions) ==
    LET objectives == {objective(P) : P \in solutions}
    IN CHOOSE best \in objectives : \A other \in objectives : best <= other

\* solve, line 425: MIPGap 0.10.  Gurobi reports OPTIMAL when
\* |ObjBound - ObjVal| <= 0.10 * |ObjVal|, and ObjBound is at most the least
\* objective, so an OPTIMAL point is within a tenth of its own objective
\* of the least one.
WithinGap(P, best) == 10 * (objective(P) - best) <= objective(P)

(***************************************************************************)
(* The warm start (greedy.py lines 522-573, milp_soft.py lines 280-331).   *)
(***************************************************************************)
\* format_solution_for_milp: the keys that are given the value 1
format_solution_for_milp(assignments, scheduled) ==
    LET held == {key \in (DOMAIN assignments) \X SectionIdSet :
                    key[2] \in Range(assignments[key[1]])}
    IN [x_vars |-> [key \in held |-> 1],
        z_vars |-> [key \in {<<s, scheduled[s]>> : s \in DOMAIN scheduled} |-> 1],
        y_vars |-> [key \in {<<key[1], key[2], scheduled[key[2]]>> :
                               key \in {h \in held : h[2] \in DOMAIN scheduled}} |-> 1]]

\* a dict cut down to the keys a variable exists for
OnKeys(values, keys) == [key \in DOMAIN values \cap keys |-> values[key]]

\* milp_soft.py lines 302-314: the start values set on the variables
StartValues(greedy) ==
    [x |-> OnKeys(greedy.x_vars, x_keys),
     z |-> OnKeys(greedy.z_vars, z_keys),
     y |-> OnKeys(greedy.y_vars, y_keys)]

(***************************************************************************)
(* save_solution (milp_soft.py lines 546-613).                             *)
(***************************************************************************)
\* sum(var.X > 0.5 for var in values)
CountSet(values) == Cardinality({key \in DOMAIN values : values[key] >= 1})

\* line 589 divides by total_requests, the number of missed_request
\* variables (when solve's own division at line 483 raises there is no
\* request at all, the handler at lines 533-544 calls save_solution and this
\* division raises in turn)
SaveRaises == Cardinality(missed_keys) = 0

\* rows[rows['Section ID'] == key].iloc[0]: the first row of a key
FirstRow(rows, key) ==
    rows[CHOOSE n \in DOMAIN rows :
             rows[n].id = key /\ \A m \in 1..(n - 1) : rows[m].id # key]

\* the four tables handed to loader.save_solution, rows without their order
SavedTables(P) ==
    [section_schedule |-> {key \in DOMAIN P.z : P.z[key] >= 1},
     student_assignments |-> {key \in DOMAIN P.x : P.x[key] >= 1},
     teacher_schedule |->
        {<<FirstRow(sections, key[1]).teacher, key[1], key[2]>> :
            key \in {zk \in DOMAIN P.z : P.z[zk] >= 1}},
     constraint_violations |->
        [missed_count |-> CountSet(P.missed_request),
         total_requests |-> Cardinality(missed_keys),
         percentage |-> Frac(100 * CountSet(P.missed_request), Cardinality(missed_keys)),
         sections_over_capacity |-> CountSet(P.capacity_violation),
         total_sections |-> Len(sections),
         total_overages |-> Total(P.capacity_violation)]]

(***************************************************************************)
(* The run of the optimizer (milp_soft.py lines 641-644).                  *)
(***************************************************************************)
greedy_idle ==
    <<sorted_sections, scheduled_sections, sorted_students, student_assignments,
      best_sections, sorted_courses, i, k, output>>

tables ==
    <<students, student_preferences, sections, teacher_unavailability, periods,
      data, period_file, Teacher_Info, calls>>

create_variables ==
    /\ pc = "constructed"
    /\ pc' = "variables"
    /\ UNCHANGED <<tables, greedy_idle, X, start, status, SolCount, saved>>

add_constraints_built ==
    /\ pc = "variables"
    /\ pc' = "constraints"
    /\ UNCHANGED <<tables, greedy_idle, X, start, status, SolCount, saved>>

set_objective ==
    /\ pc = "constraints"
    /\ pc' = "objective"
    /\ UNCHANGED <<tables, greedy_idle, X, start, status, SolCount, saved>>

\* solve, line 466: greedy.greedy_initial_solution (greedy.py lines 546-573)
\* runs on the optimizer's tables and its values are set as start values
solve_greedy_initial_solution ==
    /\ pc = "objective"
    /\ data' = preprocess_data(students, student_preferences, sections,
                               teacher_unavailability, periods)
    /\ scheduled_sections' = greedy_schedule_sections(sections, data')
    /\ student_assignments' =
           greedy_assign_students(students, scheduled_sections', data')
    /\ start' = StartValues(format_solution_for_milp(student_assignments',
                                                     scheduled_sections'))
    /\ pc' = "started"
    /\ UNCHANGED <<students, student_preferences, sections, teacher_unavailability,
                   periods, period_file, Teacher_Info, sorted_sections,
                   sorted_students, best_sections, sorted_courses, i, k, output,
                   X, status, SolCount, saved, calls>>

\* solve, line 474: the solver stops with a solution
optimize_solution ==
    /\ pc = "started"
    /\ \E solutions \in {Solutions} :
          /\ solutions # {}
          /\ \E best \in {MinObjective(solutions)} : \E P \in solutions :
             \E code \in {"OPTIMAL", "TIME_LIMIT", "MEM_LIMIT"} :
                /\ code = "OPTIMAL" => WithinGap(P, best)
                /\ X' = P
                /\ status' = code
    /\ SolCount' = 1
    /\ pc' = "optimized"
    /\ UNCHANGED <<tables, greedy_idle, start, saved>>

\* solve, line 474: the solver stops without a solution
optimize_no_solution ==
    /\ pc = "started"
    /\ status' \in {"TIME_LIMIT", "MEM_LIMIT"}
                      \cup (IF Feasible THEN {} ELSE {"INFEASIBLE"})
    /\ SolCount' = 0
    /\ pc' = "optimized"
    /\ UNCHANGED <<tables, greedy_idle, X, start, saved>>

\* solve, lines 474 and 530-532: optimize raises a GurobiError
optimize_raises ==
    /\ pc = "started"
    /\ status' = "GurobiError"
    /\ pc' = "raised"
    /\ UNCHANGED <<tables, greedy_idle, X, start, SolCount, saved>>

\* solve, line 479
Accepted == status = "OPTIMAL" \/ (status = "TIME_LIMIT" /\ SolCount > 0)

\* solve, lines 479-524: the solution is saved
solve_save_solution ==
    /\ pc = "optimized"
    /\ Accepted
    /\ ~SaveRaises
    /\ saved' = {SavedTables(X)}
    /\ pc' = "solved"
    /\ UNCHANGED <<tables, greedy_idle, X, start, status, SolCount>>

\* solve, lines 524 and 533-544: save_solution raises at line 589, the
\* handler calls it again, it raises again, the exception is raised on
solve_save_raises ==
    /\ pc = "optimized"
    /\ Accepted
    /\ SaveRaises
    /\ pc' = "raised"
    /\ UNCHANGED <<tables, greedy_idle, X, start, status, SolCount, saved>>

\* solve, lines 525-528: an error is logged, nothing is saved
solve_logs_error ==
    /\ pc = "optimized"
    /\ ~Accepted
    /\ pc' = "solved"
    /\ UNCHANGED <<tables, greedy_idle, X, start, status, SolCount, saved>>

NextOptimizer ==
    \/ create_variables
    \/ add_constraints_built
    \/ set_objective
    \/ solve_greedy_initial_solution
    \/ optimize_solution
    \/ optimize_no_solution
    \/ optimize_raises
    \/ solve_save_solution
    \/ solve_save_raises
    \/ solve_logs_error

(***************************************************************************)
(* The tables the optimizer is run on.  Every section has room for all     *)
(* the students within MaxOverflow units of overflow, so that the cap on   *)
(* capacity_violation removes no enrollment from the solutions.            *)
(***************************************************************************)
SpedStudents == 13

Row(student_id, sped) == [id |-> student_id, sped |-> sped]

Request(student_id, courses) == [id |-> student_id, courses |-> courses]

OptimizerInput(secs, studs, prefs, teacher_rows, unavail) ==
    [sections |-> secs, students |-> studs, student_preferences |-> prefs,
     Teacher_Info |-> teacher_rows, teacher_unavailability |-> unavail]

\* two sections of one course and one teacher, two students
TwoAlgebra ==
    OptimizerInput(<<SectionRow(1, <<"Algebra", "Math">>, "T1", 1),
                     SectionRow(2, <<"Algebra", "Math">>, "T1", 1)>>,
                   <<Row("A", "Yes"), Row("B", "No")>>,
                   <<Request("A", <<"Algebra">>), Request("B", <<"Algebra">>)>>,
                   <<"T1", "T2">>, <<>>)

\* two courses, a student who requests both
AlgebraBiology ==
    OptimizerInput(<<SectionRow(1, <<"Algebra", "Math">>, "T1", 1),
                     SectionRow(2, <<"Biology", "Science">>, "T2", 1)>>,
                   <<Row("A", "Yes"), Row("B", "No")>>,
                   <<Request("A", <<"Algebra", "Biology">>), Request("B", <<"Algebra">>)>>,
                   <<"T1", "T2">>, <<>>)

\* the teacher of both sections has no row in Teacher_Info; one section
\* has no seat
MissingTeacher ==
    OptimizerInput(<<SectionRow(1, <<"Algebra", "Math">>, "T2", 0),
                     SectionRow(2, <<"Biology", "Science">>, "T2", 1)>>,
                   <<Row("A", "Yes")>>,
                   <<Request("A", <<"Algebra", "Biology">>)>>,
                   <<"T1">>, <<>>)

\* the teacher of a Medical Career section is unavailable in both periods
\* the course is allowed in
Unavailable ==
    OptimizerInput(<<SectionRow(1, <<"Medical Career", "CTE">>, "T1", 1),
                     SectionRow(2, <<"Algebra", "Math">>, "T2", 1)>>,
                   <<Row("A", "Yes")>>,
                   <<Request("A", <<"Medical Career", "Algebra">>)>>,
                   <<"T1", "T2">>,
                   <<[teacher |-> "T1", cell |-> <<"R1", COMMA, "G1">>]>>)

\* the only request names a course no section offers
NoSection ==
    OptimizerInput(<<SectionRow(1, <<"Algebra", "Math">>, "T1", 1),
                     SectionRow(2, <<"Biology", "Science">>, "T2", 1)>>,
                   <<Row("A", "Yes")>>,
                   <<Request("A", <<"Chemistry">>)>>,
                   <<"T1", "T2">>, <<>>)

\* one request for a course no section offers, one for a course with a
\* section
Mixed ==
    OptimizerInput(<<SectionRow(1, <<"Algebra", "Math">>, "T1", 1)>>,
                   <<Row("A", "Yes"), Row("B", "No")>>,
                   <<Request("A", <<"Chemistry">>), Request("B", <<"Algebra">>)>>,
                   <<"T1">>, <<>>)

\* Scenario D: SpedStudents SPED students request the one section, which
\* has a seat for each of them
ScenarioD ==
    OptimizerInput(<<SectionRow(1, <<"Medical Career", "CTE">>, "T1", SpedStudents)>>,
                   [n \in 1..SpedStudents |-> Row("S" \o ToString(n), "Yes")],
                   [n \in 1..SpedStudents |->
                       Request("S" \o ToString(n), <<"Medical Career">>)],
                   <<"T1">>, <<>>)

OptimizerInputs ==
    {TwoAlgebra, AlgebraBiology, MissingTeacher, Unavailable, NoSection, Mixed}

\* ScheduleOptimizer.__init__ has returned; reported is the job status its
\* caller has written before, None when the caller writes none
ConstructedIn(input, reported) ==
    /\ sections = input.sections
    /\ students = input.students
    /\ student_preferences = input.student_preferences
    /\ Teacher_Info = input.Teacher_Info
    /\ teacher_unavailability = input.teacher_unavailability
    /\ periods = DefaultPeriods
    /\ data = None
    /\ sorted_sections = <<>>
    /\ scheduled_sections = <<>>
    /\ sorted_students = <<>>
    /\ student_assignments = <<>>
    /\ best_sections = <<>>
    /\ sorted_courses = <<>>
    /\ pc = "constructed"
    /\ i = 1
    /\ k = 1
    /\ output = <<>>
    /\ period_file = None
    /\ X = None
    /\ start = None
    /\ status = None
    /\ SolCount = 0
    /\ saved = {}
    /\ score_call = None
    /\ job_status = reported

Constructed(input) == ConstructedIn(input, None)

InitOptimizer == \E input \in OptimizerInputs : Constructed(input)

SpecOptimizer == InitOptimizer /\ [][NextOptimizer]_vars

\* the optimizer run on Scenario D (and on the tables without a requested
\* section, the input save_solution raises on)
InitScenarioD == \E input \in {ScenarioD, NoSection} : Constructed(input)

SpecScenarioD == InitScenarioD /\ [][NextOptimizer]_vars

(***************************************************************************)
(* Loading the Periods table.  Period.csv is absent, or has no bytes, or   *)
(* has its header line and the period_name cells of its rows.  Both        *)
(* storage branches (local directory, S3) treat the three cases alike.     *)
(***************************************************************************)
MaxPeriodRows == 3

PeriodNames == {"R1", "R2", "G1"}

PeriodFile(exists, header, rows) == [exists |-> exists, header |-> header, rows |-> rows]

PeriodFiles ==
    {PeriodFile(FALSE, FALSE, <<>>), PeriodFile(TRUE, FALSE, <<>>)}
        \cup {PeriodFile(TRUE, TRUE, rows) :
                 rows \in UNION {[1..n -> PeriodNames] : n \in 0..MaxPeriodRows}}

\* pd.read_csv raises FileNotFoundError (S3: NoSuchKey) or EmptyDataError
read_csv_raises(file) == ~file.exists \/ ~file.header

\* greedy.load_data, lines 61-67 and 86-91: the period_name column as a
\* list, the default periods when reading the file raises
load_data ==
    /\ pc = "start"
    /\ periods' = IF read_csv_raises(period_file)
                  THEN <<"R1", "R2", "R3", "R4", "G1", "G2", "G3", "G4">>
                  ELSE period_file.rows
    /\ pc' = "load_data returned"
    /\ UNCHANGED <<students, student_preferences, sections, teacher_unavailability,
                   data, greedy_idle, optimizer, calls>>

\* ScheduleOptimizer.__init__, lines 43-56: load_all has returned the tables
\* and self.periods is the fixed list
ScheduleOptimizer_init ==
    /\ pc = "start"
    /\ ~read_csv_raises(period_file)
    /\ periods' = DefaultPeriods
    /\ pc' = "constructed"
    /\ UNCHANGED <<students, student_preferences, sections, teacher_unavailability,
                   data, greedy_idle, optimizer, calls>>

\* load.py lines 182-195 and 377-388: load_base_data and load_all raise again
\* what reading Period.csv raised, and so does ScheduleOptimizer.__init__
ScheduleOptimizer_init_raises ==
    /\ pc = "start"
    /\ read_csv_raises(period_file)
    /\ pc' = "raised"
    /\ UNCHANGED <<tables, greedy_idle, optimizer>>

NextLoad ==
    \/ load_data
    \/ ScheduleOptimizer_init
    \/ ScheduleOptimizer_init_raises

\* before any table is loaded
InitLoad ==
    /\ period_file \in PeriodFiles
    /\ periods = <<>>
    /\ sections = <<>>
    /\ students = <<>>
    /\ student_preferences = <<>>
    /\ Teacher_Info = <<>>
    /\ teacher_unavailability = <<>>
    /\ data = None
    /\ sorted_sections = <<>>
    /\ scheduled_sections = <<>>
    /\ sorted_students = <<>>
    /\ student_assignments = <<>>
    /\ best_sections = <<>>
    /\ sorted_courses = <<>>
    /\ pc = "start"
    /\ i = 1
    /\ k = 1
    /\ output = <<>>
    /\ X = None
    /\ start = None
    /\ status = None
    /\ SolCount = 0
    /\ saved = {}
    /\ score_call = None
    /\ job_status = None

SpecLoad == InitLoad /\ [][NextLoad]_vars

(***************************************************************************)
(* What a point says about the timetable.                                  *)
(***************************************************************************)
\* the student is enrolled in the section: x is 1
Enrolled(P, student_id, section_id) ==
    /\ <<student_id, section_id>> \in DOMAIN P.x
    /\ P.x[<<student_id, section_id>>] = 1

\* the section is scheduled in the period: z is 1
ScheduledIn(P, section_id, period) ==
    /\ <<section_id, period>> \in DOMAIN P.z
    /\ P.z[<<section_id, period>>] = 1

\* the sections of a course in the Sections table
SectionsOfCourse(course_id) ==
    {sections[n].id : n \in {m \in DOMAIN sections : sections[m].course = course_id}}

\* the (student, requested course) pairs of the Preferences table
RequestPairs ==
    {pair \in StudentIdSet \X UNION {Range(student_preferences[n].courses) :
                                        n \in DOMAIN student_preferences} :
        pair[2] \in Range(requested_courses(pair[1]))}

\* the students enrolled in a section
Enrollment(P, section_id) == {s \in StudentIdSet : Enrolled(P, s, section_id)}

\* enrollment above capacity
Excess(P, section) ==
    IF Cardinality(Enrollment(P, section.id)) > section.seats
    THEN Cardinality(Enrollment(P, section.id)) - section.seats ELSE 0

\* the run is over: solve has returned or raised
Over == pc \in {"solved", "raised"}

(***************************************************************************)
(* C11.  When the solver stops at its time limit with an incumbent, solve  *)
(* saves the incumbent's four tables; the incumbent is never discarded.    *)
(* The tables with no request for a course that has a section refute it:   *)
(* save_solution divides by the number of missed_request variables.        *)
(***************************************************************************)
C11_IncumbentSaved ==
    (Over /\ status = "TIME_LIMIT" /\ SolCount > 0) =>
        /\ saved # {}
        /\ \A tables_written \in saved : tables_written = SavedTables(X)

(***************************************************************************)
(* C12.  When the solver fails or stops without a solution and the greedy  *)
(* warm start assigned some student, the run still emits output tables.    *)
(* The code only logs an error (or raises): it refutes the claim.          *)
(***************************************************************************)
C12_FallsBackToGreedy ==
    (Over /\ ~Accepted /\ \E key \in DOMAIN start.x : start.x[key] = 1)
        => saved # {}

(***************************************************************************)
(* C13.  The greedy output handed to the solver, with the variables it     *)
(* does not name at 0 and missed_request and capacity_violation set        *)
(* accordingly, satisfies every constraint of add_constraints.  A section  *)
(* the greedy could not schedule refutes it.                               *)
(***************************************************************************)
\* the start value of a variable, 0 where the greedy output does not name it
StartOr0(values, keys) == [key \in keys |-> GetOr(values, key, 0)]

StartPoint ==
    LET xv == StartOr0(start.x, x_keys)
    IN [x |-> xv,
        z |-> StartOr0(start.z, z_keys),
        y |-> StartOr0(start.y, y_keys),
        missed_request |->
            [key \in missed_keys |->
                IF \E j \in SectionsOfCourse(key[2]) :
                       <<key[1], j>> \in x_keys /\ xv[<<key[1], j>>] = 1
                THEN 0 ELSE 1],
        capacity_violation |->
            [j \in capacity_keys |->
                LET enrolled == Cardinality({s \in StudentIdSet :
                                    <<s, j>> \in x_keys /\ xv[<<s, j>>] = 1})
                    seats == LastRow(sections, j).seats
                IN IF enrolled > seats THEN enrolled - seats ELSE 0]]

C13_WarmStartFeasible == pc = "started" => add_constraints(StartPoint)

(***************************************************************************)
(* C14.  In every solution no student is enrolled in two sections that are *)
(* scheduled in the same period.                                           *)
(***************************************************************************)
C14_NoStudentOverlap ==
    SolCount > 0 =>
        \A s \in StudentIdSet : \A j1 \in SectionIdSet : \A j2 \in SectionIdSet :
        \A p \in Range(periods) :
            (/\ j1 # j2
             /\ Enrolled(X, s, j1) /\ Enrolled(X, s, j2)
             /\ ScheduledIn(X, j1, p)) => ~ScheduledIn(X, j2, p)

\* a solution in which a student holds two sections
C14_Witness ==
    /\ SolCount > 0
    /\ \E s \in StudentIdSet : \E j1 \in SectionIdSet : \E j2 \in SectionIdSet :
          j1 # j2 /\ Enrolled(X, s, j1) /\ Enrolled(X, s, j2)

(***************************************************************************)
(* C15.  In every solution no two sections of one teacher are scheduled in *)
(* the same period, for every teacher the Sections table names.  A teacher *)
(* without a row in Teacher_Info refutes it.                               *)
(***************************************************************************)
C15_NoTeacherOverlap ==
    SolCount > 0 =>
        \A n \in DOMAIN sections : \A m \in DOMAIN sections : \A p \in Range(periods) :
            (/\ n # m
             /\ sections[n].teacher = sections[m].teacher
             /\ ScheduledIn(X, sections[n].id, p)) => ~ScheduledIn(X, sections[m].id, p)

(***************************************************************************)
(* C16.  In every solution, for each student and each course the student   *)
(* requested, the enrollments in the course's sections and the missed      *)
(* variable of the pair add up to 1.  A requested course without a section *)
(* has no missed variable: it refutes the claim.                           *)
(***************************************************************************)
C16_EnrolledOrMissed ==
    SolCount > 0 =>
        \A pair \in RequestPairs :
            /\ pair \in DOMAIN X.missed_request
            /\ Cardinality({j \in SectionsOfCourse(pair[2]) : Enrolled(X, pair[1], j)})
                   + X.missed_request[pair] = 1

(***************************************************************************)
(* C17.  In every solution no section has more than 12 SPED students       *)
(* enrolled.  The SPED students are those greedy.py reads as SPED ("Yes")  *)
(* and those milp_soft.py reads as SPED (1); Scenario D written with "Yes" *)
(* refutes the claim.                                                      *)
(***************************************************************************)
IsSped(student) == student.sped = "Yes" \/ ReadsAsOne(student.sped)

C17_SpedCap ==
    SolCount > 0 =>
        LET sped == {students[n].id : n \in {m \in DOMAIN students : IsSped(students[m])}}
        IN \A j \in SectionIdSet :
              Cardinality({key \in DOMAIN X.x :
                              key[1] \in sped /\ key[2] = j /\ X.x[key] = 1}) <= 12

(***************************************************************************)
(* C18.  The violations report gives the number of (student, requested     *)
(* course) pairs without an enrollment as missed count and the number of   *)
(* all such pairs as total.  A request for a course without a section      *)
(* refutes it.                                                             *)
(***************************************************************************)
C18_ReportCountsRequests ==
    \A tables_written \in saved :
        /\ tables_written.constraint_violations.total_requests = Cardinality(RequestPairs)
        /\ tables_written.constraint_violations.missed_count =
               Cardinality({pair \in RequestPairs :
                               \A j \in SectionsOfCourse(pair[2]) : ~Enrolled(X, pair[1], j)})

(***************************************************************************)
(* C19.  In every saved solution the overflow of a section is at least its *)
(* enrollment above capacity, and the report's total overages and sections *)
(* over capacity are the actual ones of the saved assignments.  A solution *)
(* whose overflow variable is above the excess refutes it.                 *)
(***************************************************************************)
C19_OverflowIsExcess ==
    \A tables_written \in saved :
        /\ \A n \in DOMAIN sections :
              X.capacity_violation[sections[n].id] >= Excess(X, sections[n])
        /\ tables_written.constraint_violations.total_overages =
               Sum([n \in DOMAIN sections |-> Excess(X, sections[n])])
        /\ tables_written.constraint_violations.sections_over_capacity =
               Cardinality({n \in DOMAIN sections : Excess(X, sections[n]) > 0})

(***************************************************************************)
(* C20.  When Period.csv is absent or empty, loading succeeds and the      *)
(* periods used are R1, R2, R3, R4, G1, G2, G3, G4, on both loading paths. *)
(* ScheduleOptimizer raises on an absent file, and load_data takes the     *)
(* empty list from a file that has only its header: both refute it.        *)
(***************************************************************************)
C20_DefaultPeriodsWhenAbsent ==
    (/\ pc \in {"load_data returned", "constructed", "raised"}
     /\ (~period_file.exists \/ period_file.rows = <<>>))
        => /\ pc # "raised"
           /\ periods = <<"R1", "R2", "R3", "R4", "G1", "G2", "G3", "G4">>

(***************************************************************************)
(* compute_student_section_score called on its own: the enrollment and the *)
(* schedule it is given are any of a bounded set, also ones the assigner   *)
(* never builds (a student holding two sections of one course or of one    *)
(* period, a section above its capacity).                                  *)
(***************************************************************************)
MaxCrowd == 3

\* three students of whom A and B are SPED, two sections of Algebra and one
\* of Biology
ScoreSections(seats) ==
    <<SectionRow(1, <<"Algebra", "Math">>, "T1", seats),
      SectionRow(2, <<"Algebra", "Math">>, "T1", MaxCrowd),
      SectionRow(3, <<"Biology", "Science">>, "T2", MaxCrowd)>>

ScoreStudents(sped) == <<Row("A", "Yes"), Row("B", "Yes"), Row("C", sped)>>

ScorePreferences(courses) ==
    <<Request("A", <<"Algebra">>), Request("B", <<"Algebra">>), Request("C", courses)>>

\* the Section -> Period dicts over the three sections
ScoreSchedules ==
    UNION {[scheduled -> {"R1", "R2"}] : scheduled \in SUBSET {"1", "2", "3"}}

\* the Student -> Sections dicts: A and B hold section 1 or nothing, C holds
\* up to two sections
ScoreAssignments ==
    {[s \in {"A", "B", "C"} |-> IF s = "A" THEN a ELSE IF s = "B" THEN b ELSE c] :
        a \in {<<>>, <<"1">>}, b \in {<<>>, <<"1">>},
        c \in {<<>>, <<"1">>, <<"2">>, <<"3">>, <<"3", "1">>}}

InitScore ==
    /\ \E seats \in 0..MaxCrowd : sections = ScoreSections(seats)
    /\ \E sped \in {"Yes", "No"} : students = ScoreStudents(sped)
    /\ \E courses \in {<<"Algebra">>, <<"Algebra", "Biology">>} :
          student_preferences = ScorePreferences(courses)
    /\ teacher_unavailability = <<>>
    /\ periods = <<"R1", "R2">>
    /\ data = preprocess_data(students, student_preferences, sections,
                              teacher_unavailability, periods)
    /\ sorted_sections = <<>>
    /\ scheduled_sections \in ScoreSchedules
    /\ sorted_students = <<>>
    /\ student_assignments \in ScoreAssignments
    /\ best_sections = <<>>
    /\ sorted_courses = <<>>
    /\ pc = "score"
    /\ i = 1
    /\ k = 1
    /\ output = <<>>
    /\ period_file = None
    /\ Teacher_Info = <<>>
    /\ X = None
    /\ start = None
    /\ status = None
    /\ SolCount = 0
    /\ saved = {}
    /\ score_call = None
    /\ job_status = None

\* one call of compute_student_section_score (greedy.py lines 371-425)
call_compute_student_section_score ==
    /\ pc = "score"
    /\ \E student_id \in StudentIds : \E section_id \in SectionIds :
       \E iteration \in IterationOrders(
              remaining_courses(student_id, student_assignments, data)) :
          score_call' =
              [student_id |-> student_id, section_id |-> section_id,
               score |-> compute_student_section_score(
                             student_id, section_id, student_assignments,
                             scheduled_sections, data, iteration)]
    /\ pc' = "scored"
    /\ UNCHANGED <<students, student_preferences, sections, teacher_unavailability,
                   periods, data, greedy_idle, optimizer, job_status>>

NextScore == call_compute_student_section_score

SpecScore == InitScore /\ [][NextScore]_vars

\* the course of a section in the Sections table
CourseOf(section_id) == LastRow(sections, section_id).course

\* the five grounds on which the student cannot take the section, read off
\* the tables, the enrollment and the schedule
Rejected(student_id, section_id) ==
    LET mine == Range(SectionsOf(student_id, student_assignments))
    IN \/ \E held \in mine : CourseOf(held) = CourseOf(section_id)
       \/ \A n \in DOMAIN student_preferences :
             student_preferences[n].id = student_id
                 => CourseOf(section_id) \notin Range(student_preferences[n].courses)
       \/ section_id \notin DOMAIN scheduled_sections
       \/ \E held \in mine :
             /\ held \in DOMAIN scheduled_sections
             /\ scheduled_sections[held] = scheduled_sections[section_id]
       \/ Cardinality({s \in DOMAIN student_assignments :
                          section_id \in Range(student_assignments[s])})
              >= LastRow(sections, section_id).seats

\* the SPED students (SPED cell "Yes") enrolled in a section
SpedIn(section_id) ==
    {students[n].id : n \in {m \in DOMAIN students :
                                /\ students[m].sped = "Yes"
                                /\ section_id \in Range(SectionsOf(students[m].id,
                                                                   student_assignments))}}

(***************************************************************************)
(* C21.  compute_student_section_score returns 0 exactly when the student  *)
(* already holds a section of the course, or did not request the course,   *)
(* or the section has no period, or the student holds a section in that    *)
(* period, or the section is at or above capacity; in every other case the *)
(* score is above 0, whatever the fill ratio and the number of SPED        *)
(* students in the section.                                                *)
(***************************************************************************)
C21_ZeroIffRejected ==
    pc = "scored" =>
        /\ score_call.score = Zero
               <=> Rejected(score_call.student_id, score_call.section_id)
        /\ ~Rejected(score_call.student_id, score_call.section_id)
               => FPos(score_call.score)

\* C21 happens: a SPED student is scored on a section that holds two SPED
\* students and is not rejected; the score is decayed and still above 0
C21_Witness ==
    /\ pc = "scored"
    /\ score_call.student_id \in data.sped_students
    /\ Cardinality(SpedIn(score_call.section_id)) >= 2
    /\ ~Rejected(score_call.student_id, score_call.section_id)
    /\ FPos(score_call.score)
    /\ FLess(score_call.score, One)

(***************************************************************************)
(* The order of the scheduler's and the assigner's work.                   *)
(***************************************************************************)
\* the phase whose loop is running
PhaseOf(at) == CHOOSE phase \in 1..4 : PhaseName(phase) = at

\* the position of a period's first occurrence in the configured order
FirstAt(period) ==
    CHOOSE n \in DOMAIN periods :
        periods[n] = period /\ \A m \in 1..(n - 1) : periods[m] # period

\* the table holds one section, of a period-restricted course of which two
\* periods are configured, and its teacher is free in both
ScenarioA ==
    /\ Len(sections) = 1
    /\ sections[1].course \in DOMAIN special_course_periods
    /\ Cardinality(AllowedPeriods(sections[1].id) \cap Range(periods)) = 2
    /\ ListedUnavailable(sections[1].teacher) \cap AllowedPeriods(sections[1].id) = {}

(***************************************************************************)
(* C22.  For each section it attempts, the scheduler commits the period    *)
(* with the greatest score, the first in the configured period order among *)
(* equal scores, and commits only if that score is above 0.  A single      *)
(* section restricted to two periods whose teacher is free in both is put  *)
(* in the earlier of the two.                                              *)
(***************************************************************************)
C22_CommitsFirstMaximum ==
    [][/\ (InSchedulePhase /\ i' = i + 1
             /\ Attempts(PhaseOf(pc), sorted_sections[i], scheduled_sections, data))
          => LET section_id == sorted_sections[i]
                 score(period) ==
                     compute_period_score(section_id, period, scheduled_sections, data)
             IN IF \E n \in DOMAIN periods : FPos(score(periods[n]))
                THEN /\ section_id \in DOMAIN scheduled_sections'
                     /\ \A n \in DOMAIN periods :
                           /\ ~FLess(score(scheduled_sections'[section_id]),
                                     score(periods[n]))
                           /\ n < FirstAt(scheduled_sections'[section_id])
                                => FLess(score(periods[n]),
                                         score(scheduled_sections'[section_id]))
                     /\ \A other \in DOMAIN scheduled_sections' \ {section_id} :
                           /\ other \in DOMAIN scheduled_sections
                           /\ scheduled_sections'[other] = scheduled_sections[other]
                ELSE scheduled_sections' = scheduled_sections
       /\ (pc = "phase1" /\ pc' = "phase2" /\ ScenarioA)
          => /\ sections[1].id \in DOMAIN scheduled_sections'
             /\ \A p \in AllowedPeriods(sections[1].id) \cap Range(periods) :
                   FirstAt(scheduled_sections'[sections[1].id]) <= FirstAt(p)]_vars

\* C22 happens: the schedule is returned for the single restricted section
\* of ScenarioA; G1 and R1 scored alike and G1, configured before R1, was taken
C22_Witness ==
    /\ pc = "scheduled"
    /\ ScenarioA
    /\ periods = <<"R2", "G1", "R1">>
    /\ sections[1].id \in DOMAIN scheduled_sections
    /\ scheduled_sections[sections[1].id] = "G1"
    /\ compute_period_score(sections[1].id, "R1", <<>>, data)
           = compute_period_score(sections[1].id, "G1", <<>>, data)

\* the first phase whose kind of section a Sections_Information row is
HomePhase(row) ==
    IF row.course \in DOMAIN special_course_periods THEN 1
    ELSE IF row.course = "Sports Med" THEN 2
    ELSE IF HasScience(row.dept) THEN 3
    ELSE 4

\* a phase takes the sections of its own kind; the fourth takes any section
OfPhase(row, phase) == phase = 4 \/ HomePhase(row) = phase

\* the row number of a section in Sections_Information
InputAt(section_id) == CHOOSE n \in DOMAIN sections : sections[n].id = section_id

\* sorted_sections holds every section once, in descending priority, equal
\* priorities in input order
SortedByPriority ==
    LET priority == compute_section_priority(sections, data)
    IN /\ Len(sorted_sections) = Len(sections)
       /\ Range(sorted_sections) = SectionIds
       /\ \A a, b \in DOMAIN sorted_sections :
             a < b => /\ ~FLess(priority[sorted_sections[a]], priority[sorted_sections[b]])
                      /\ priority[sorted_sections[a]] = priority[sorted_sections[b]]
                            => InputAt(sorted_sections[a]) < InputAt(sorted_sections[b])

(***************************************************************************)
(* C23.  greedy_schedule_sections works in four phases in order            *)
(* (period-restricted courses, Sports Med, Science department, the rest):  *)
(* a phase begins only when the loop of the phase before has passed every  *)
(* section, so no section is committed in a later phase before every       *)
(* section of an earlier phase has been attempted; a phase commits only    *)
(* sections of its kind, and passes the sections in descending priority,   *)
(* equal priorities in input order.                                        *)
(***************************************************************************)
C23_FourOrderedPhases ==
    [][/\ InSchedulePhase => SortedByPriority
       /\ (InSchedulePhase /\ pc' # pc)
          => /\ i > Len(sorted_sections)
             /\ pc' = PhaseName(PhaseOf(pc) + 1)
             /\ i' = 1
             /\ scheduled_sections' = scheduled_sections
       /\ (InSchedulePhase /\ pc' = pc)
          => /\ i' = i + 1
             /\ i <= Len(sorted_sections)
             /\ \A s \in DOMAIN scheduled_sections' :
                   s # sorted_sections[i]
                       => s \in DOMAIN scheduled_sections
                          /\ scheduled_sections'[s] = scheduled_sections[s]
             /\ scheduled_sections' # scheduled_sections
                   => OfPhase(LastRow(sections, sorted_sections[i]), PhaseOf(pc))
       /\ pc = "loaded" => pc' = "phase1" /\ i' = 1 /\ scheduled_sections' = <<>>
       /\ scheduled_sections' # scheduled_sections
             => (pc = "loaded" \/ InSchedulePhase)]_vars

\* C23 happens: the schedule is returned with two sections in it, the second
\* row of the table sorted before the first and committed a phase earlier
C23_Witness ==
    /\ pc = "scheduled"
    /\ Len(sections) = 2
    /\ sorted_sections = <<sections[2].id, sections[1].id>>
    /\ HomePhase(sections[2]) < HomePhase(sections[1])
    /\ DOMAIN scheduled_sections = SectionIds

\* Student_Info tables whose students are all SPED: students whose request
\* lists are alike are equally hard
RankedStudentTables ==
    UNION {[1..len -> {[id |-> "A", sped |-> "Yes"], [id |-> "B", sped |-> "Yes"]}] :
           len \in 1..MaxStudentRows}

\* sections of one seat or more: the fill of a section tells the scores of
\* two sections apart
MaxRankedSeats == 2

RankedSectionTables ==
    {[n \in 1..3 |-> SectionRow(n, <<layout[n][1], layout[n][2]>>, layout[n][3], seats[n])] :
        layout \in Layouts, seats \in [1..3 -> 1..MaxRankedSeats]}

InitRanked ==
    Loaded(RankedSectionTables, RankedStudentTables, PreferenceTables, {<<>>},
           {<<"R1", "R2">>})

SpecRanked == InitRanked /\ [][Next]_vars

InAssign == pc \in {"special", "regular", "commit"}

\* the score of a section for a student as enrollment and schedule stand
ScoreNow(student_id, section_id) ==
    compute_student_section_score(student_id, section_id, student_assignments,
                                  scheduled_sections, data,
                                  AnIteration(student_id, student_assignments, data))

\* the scheduled sections of a course
ScheduledOf(course_id) ==
    {s \in DOMAIN scheduled_sections : CourseOf(s) = course_id}

\* sorted_students holds the rows of Student_Info hardest first, equally hard
\* ones in input order
RankedHardestFirst ==
    LET n == Len(students)
        hardness(a) == student_hardness_of(sorted_students[a], data)
    IN /\ Len(sorted_students) = n
       /\ \E f \in {g \in [1..n -> 1..n] : \A a, b \in 1..n : a # b => g[a] # g[b]} :
             /\ \A a \in 1..n : sorted_students[a] = students[f[a]].id
             /\ \A a, b \in 1..n :
                   a < b => /\ ~FLess(hardness(a), hardness(b))
                            /\ hardness(a) = hardness(b) => f[a] < f[b]

\* the enrollment after the step is the one before, with the section added
\* to the student's list or with nothing added
Adds(student_id, section_id) ==
    student_assignments' = AppendTo(student_assignments, student_id, section_id)

\* a first-phase step for the student at i and the k-th of the three courses
SpecialStep ==
    LET student_id == sorted_students[i]
        course_id == <<"Medical Career", "Heroes Teach", "Sports Med">>[k]
        open == {s \in ScheduledOf(course_id) : FPos(ScoreNow(student_id, s))}
    IN /\ IF k < 3 THEN i' = i /\ k' = k + 1 ELSE i' = i + 1 /\ k' = 1
       /\ IF open = {}
          THEN student_assignments' = student_assignments
          ELSE \E s \in open :
                  /\ Adds(student_id, s)
                  /\ \A other \in open :
                        ~FLess(ScoreNow(student_id, s), ScoreNow(student_id, other))

\* the plan of the second phase for the student at i: for each requested
\* course that is not special and not held and has a section scoring above 0,
\* a section of the greatest score; the courses in descending score
PlanStep ==
    LET student_id == sorted_students[i]
        wanted == {c \in Range(PrefsOf(student_id, data)) :
                      /\ c \notin {"Medical Career", "Heroes Teach", "Sports Med"}
                      /\ \E s \in ScheduledOf(c) : FPos(ScoreNow(student_id, s))}
    IN /\ DOMAIN best_sections' = wanted
       /\ \A c \in wanted :
             /\ best_sections'[c].section \in ScheduledOf(c)
             /\ best_sections'[c].score = ScoreNow(student_id, best_sections'[c].section)
             /\ \A s \in ScheduledOf(c) :
                   ~FLess(best_sections'[c].score, ScoreNow(student_id, s))
       /\ Range(sorted_courses') = wanted
       /\ Len(sorted_courses') = Cardinality(wanted)
       /\ \A a, b \in DOMAIN sorted_courses' :
             a < b => ~FLess(best_sections'[sorted_courses'[a]].score,
                             best_sections'[sorted_courses'[b]].score)
       /\ student_assignments' = student_assignments
       /\ i' = i /\ k' = 1

\* a commit of the second phase: the k-th course of the plan
CommitStep ==
    LET student_id == sorted_students[i]
        section_id == best_sections[sorted_courses[k]].section
    IN /\ IF FPos(ScoreNow(student_id, section_id))
          THEN Adds(student_id, section_id)
          ELSE student_assignments' = student_assignments
       /\ k' = k + 1 /\ i' = i
       /\ best_sections' = best_sections /\ sorted_courses' = sorted_courses

(***************************************************************************)
(* C24.  greedy_assign_students ranks the students hardest first, equally  *)
(* hard ones in input order, and runs two phases over them.  The first     *)
(* takes, student by student, the courses Medical Career, Heroes Teach,    *)
(* Sports Med in this order and commits the highest-scoring section at     *)
(* once.  No section of another course is committed for any student before *)
(* the first phase is over for all students.  The second commits a         *)
(* student's candidate courses in descending order of their best score,    *)
(* each only if its section still scores above 0 when it is committed.     *)
(***************************************************************************)
C24_TwoPhasesHardestFirst ==
    [][/\ InAssign => RankedHardestFirst
       /\ pc = "special"
          => /\ \A s \in DOMAIN student_assignments :
                   \A n \in DOMAIN student_assignments[s] :
                       CourseOf(student_assignments[s][n])
                           \in {"Medical Career", "Heroes Teach", "Sports Med"}
             /\ IF pc' = pc THEN i <= Len(sorted_students) /\ SpecialStep
                ELSE /\ i > Len(sorted_students)
                     /\ pc' = "regular" /\ i' = 1
                     /\ student_assignments' = student_assignments
       /\ (pc = "regular" /\ pc' = "commit") => PlanStep
       /\ (pc = "commit" /\ pc' = pc) => k <= Len(sorted_courses) /\ CommitStep
       /\ (pc = "commit" /\ pc' # pc)
          => /\ k > Len(sorted_courses)
             /\ pc' = "regular" /\ i' = i + 1
             /\ student_assignments' = student_assignments
       /\ (pc = "regular" /\ pc' = "done")
          => i > Len(sorted_students) /\ student_assignments' = student_assignments
       /\ student_assignments' # student_assignments
          => pc \in {"scheduled", "special", "commit"}]_vars

\* C24 happens: two equally hard students are ranked in input order, and the
\* second phase has gone through a student's two candidate courses: the
\* better-scoring one is committed, the other no longer scored above 0
C24_Witness ==
    /\ pc = "commit"
    /\ Len(students) = 2
    /\ students[1].id # students[2].id
    /\ student_hardness_of(students[1].id, data) = student_hardness_of(students[2].id, data)
    /\ Len(sorted_courses) = 2
    /\ FLess(best_sections[sorted_courses[2]].score, best_sections[sorted_courses[1]].score)
    /\ k = 3
    /\ best_sections[sorted_courses[1]].section
           \in Range(SectionsOf(sorted_students[i], student_assignments))
    /\ best_sections[sorted_courses[2]].section
           \notin Range(SectionsOf(sorted_students[i], student_assignments))

\* the courses the student requested and holds no section of
Unmet(student_id) ==
    Range(PrefsOf(student_id, data))
        \ {CourseOf(s) : s \in Range(SectionsOf(student_id, student_assignments))}

\* the second phase has gone through the plan of the student at i
PassFinished == pc = "commit" /\ k > Len(sorted_courses)

(***************************************************************************)
(* C25.  A request is missed only when it cannot be met: when the pass of  *)
(* greedy_assign_students over a student is finished, no scheduled section *)
(* of a course the student requested and is not enrolled in scores above 0 *)
(* for the student in the enrollment of that moment.                       *)
(***************************************************************************)
C25_MissedOnlyWhenUnsatisfiable ==
    PassFinished =>
        \A c \in Unmet(sorted_students[i]) :
            \A s \in ScheduledOf(c) : ~FPos(ScoreNow(sorted_students[i], s))

\* another section of the section's teacher sits in the period
Occupied(s, period) ==
    \E other \in DOMAIN scheduled_sections :
        /\ other # s
        /\ LastRow(sections, other).teacher = LastRow(sections, s).teacher
        /\ scheduled_sections[other] = period

\* no configured period is in the section's allowed set, free of the
\* teacher's unavailable periods and free of the teacher's other sections
Unschedulable(s) ==
    \A n \in DOMAIN periods :
        \/ periods[n] \notin AllowedPeriods(s)
        \/ TeacherUnavailable(s, periods[n], data)
        \/ Occupied(s, periods[n])

(***************************************************************************)
(* C26.  A section is left unscheduled only when it cannot be scheduled:   *)
(* in the schedule greedy_schedule_sections returns, every absent section  *)
(* has no period that is in its allowed set, outside its teacher's         *)
(* unavailable periods and not taken by another section of the teacher;    *)
(* and a section for which no such period is left while the phases run has *)
(* none in any later step.                                                 *)
(***************************************************************************)
C26_AbsentOnlyWhenUnschedulable ==
    /\ [](ScheduleReturned => \A s \in SectionIds : ~Scheduled(s) => Unschedulable(s))
    /\ [][InSchedulePhase
             => \A s \in SectionIds :
                   (~Scheduled(s) /\ Unschedulable(s))
                       => (~Scheduled(s) /\ Unschedulable(s))']_vars

\* C26 happens: the schedule is returned without a section whose teacher is
\* free in a period the section is allowed in: another section of the
\* teacher has taken the period
C26_Witness ==
    /\ pc = "scheduled"
    /\ \E s \in SectionIds :
          /\ ~Scheduled(s)
          /\ \E p \in AllowedPeriods(s) \cap Range(periods) :
                ~TeacherUnavailable(s, p, data) /\ Occupied(s, p)

(***************************************************************************)
(* Sections_Information is read as it comes: nothing in load_data or       *)
(* preprocess_data looks whether a Section ID occurs in two rows.          *)
(***************************************************************************)
RepeatedSectionTables ==
    {[n \in 1..MaxSections |->
         [SectionRow(n, f[n][1][1], f[n][1][2], 1) EXCEPT !.id = f[n][2]]] :
        f \in [1..MaxSections ->
                  (Offerings \X Teachers) \X {ToString(n) : n \in 1..MaxSections}]}

InitRepeated ==
    Loaded(RepeatedSectionTables,
           {<<[id |-> "A", sped |-> "Yes"]>>},
           {<<[id |-> "A", courses |-> <<"Medical Career", "Algebra">>]>>},
           {<<>>}, PeriodOrders)

SpecRepeated == InitRepeated /\ [][Next]_vars

(***************************************************************************)
(* C27.  Once greedy_schedule_sections has committed a section to a        *)
(* period, no later step of the same or a later phase changes or removes   *)
(* the section's period; a commit adds one Section -> Period entry and     *)
(* leaves the others as they are; greedy_assign_students never modifies    *)
(* the schedule.                                                           *)
(***************************************************************************)
C27_CommittedPeriodsKept ==
    [][/\ \A s \in DOMAIN scheduled_sections :
             /\ s \in DOMAIN scheduled_sections'
             /\ scheduled_sections'[s] = scheduled_sections[s]
       /\ Cardinality(DOMAIN scheduled_sections')
              <= Cardinality(DOMAIN scheduled_sections) + 1
       /\ ScheduleReturned => scheduled_sections' = scheduled_sections]_vars

\* what format_solution_for_milp makes of the enrollment and the schedule
Formatted == format_solution_for_milp(student_assignments, scheduled_sections)

(***************************************************************************)
(* C28.  In every state greedy_assign_students reaches, each section a     *)
(* student is enrolled in is of a course the student requested and has a   *)
(* period in the schedule; so format_solution_for_milp gives a y value for *)
(* every x value it gives, and every y it gives matches an x and a z.      *)
(***************************************************************************)
C28_EnrolledRequestedAndScheduled ==
    (InAssign \/ pc = "done") =>
        /\ \A s \in DOMAIN student_assignments :
              \A n \in DOMAIN student_assignments[s] :
                  /\ CourseOf(student_assignments[s][n]) \in Range(PrefsOf(s, data))
                  /\ student_assignments[s][n] \in DOMAIN scheduled_sections
        /\ \A xk \in DOMAIN Formatted.x_vars :
              \E yk \in DOMAIN Formatted.y_vars : yk[1] = xk[1] /\ yk[2] = xk[2]
        /\ \A yk \in DOMAIN Formatted.y_vars :
              /\ <<yk[1], yk[2]>> \in DOMAIN Formatted.x_vars
              /\ <<yk[2], yk[3]>> \in DOMAIN Formatted.z_vars

\* C28 happens: the run is over, a section of a course the student requested
\* has no period, and the student is enrolled in another section, for which
\* there is a y value
C28_Witness ==
    /\ pc = "done"
    /\ \E s \in DOMAIN student_assignments :
          /\ \E absent \in SectionIds :
                ~Scheduled(absent) /\ CourseOf(absent) \in Range(PrefsOf(s, data))
          /\ student_assignments[s] # <<>>
    /\ DOMAIN Formatted.y_vars # {}

(***************************************************************************)
(* C29.  For one Students table the greedy path and the formulation take   *)
(* the same students for SPED: when solve has run greedy_initial_solution  *)
(* on the optimizer's tables, the sped_students of preprocess_data are the *)
(* students the sped_distribution constraints of add_constraints count.    *)
(***************************************************************************)
C29_SameSpedStudents ==
    pc = "started" =>
        data.sped_students = {sped_students[n].id : n \in DOMAIN sped_students}

(***************************************************************************)
(* run_chico_high_milp (backend/batch_jobs/run_optimization.py): the job   *)
(* writes RUNNING, constructs the optimizer, calls create_variables,       *)
(* add_constraints, set_objective and solve, and then writes COMPLETED or  *)
(* FAILED.  ScheduleOptimizer is the class of core/milp_soft.py.           *)
(***************************************************************************)
\* lines 110-131: solve has returned, the model has a solution and the
\* satisfaction rate can be computed
run_chico_high_milp_completed ==
    /\ pc = "solved"
    /\ job_status = "RUNNING"
    /\ SolCount > 0
    /\ missed_keys # {}
    /\ job_status' = "COMPLETED"
    /\ pc' = "reported"
    /\ UNCHANGED <<students, student_preferences, sections, teacher_unavailability,
                   periods, data, greedy_idle, optimizer, score_call>>

\* lines 132-148: no solution, or an exception (of the optimizer, or the
\* division by total_requests = 0 at line 115)
run_chico_high_milp_failed ==
    /\ job_status = "RUNNING"
    /\ \/ pc = "raised"
       \/ pc = "solved" /\ (SolCount = 0 \/ missed_keys = {})
    /\ job_status' = "FAILED"
    /\ pc' = "reported"
    /\ UNCHANGED <<students, student_preferences, sections, teacher_unavailability,
                   periods, data, greedy_idle, optimizer, score_call>>

NextBatch ==
    \/ NextOptimizer
    \/ run_chico_high_milp_completed
    \/ run_chico_high_milp_failed

InitBatch == \E input \in OptimizerInputs : ConstructedIn(input, "RUNNING")

SpecBatch == InitBatch /\ [][NextBatch]_vars

(***************************************************************************)
(* C30.  run_chico_high_milp reports COMPLETED only after solve has saved  *)
(* the solution tables: whenever solve returns without calling             *)
(* save_solution, also after a stop other than OPTIMAL or TIME_LIMIT that  *)
(* has an incumbent, the job is reported FAILED.                           *)
(***************************************************************************)
C30_CompletedOnlyAfterSave ==
    pc = "reported" =>
        /\ job_status \in {"COMPLETED", "FAILED"}
        /\ job_status = "COMPLETED" => saved # {}
        /\ saved = {} => job_status = "FAILED"

====
